---- MODULE Spec2Model ----
(***************************************************************************)
(* Model of the stdlib analyzer (github.com/abemedia/stdlib): the run of   *)
(* NewAnalyzer().Run over the files of one type-checked package.           *)
(*                                                                         *)
(* Representation of the Go values:                                        *)
(*   - an import path is the sequence of its slash-separated segments;     *)
(*   - a "pkg.Symbol" replacement reference and any source text is a       *)
(*     sequence of tokens, "" being the empty sequence;                    *)
(*   - a Go version "go1.21" is <<1, 21>>, "go1" is <<1>>, "" is << >>;     *)
(*   - a token.Pos is a positive integer, token.NoPos is 0;                *)
(*   - a Go map is a function on the set of its keys.                      *)
(***************************************************************************)
EXTENDS Integers, Sequences, FiniteSets, TLC

\* Number of identifier uses (entries of TypesInfo.Uses that resolve to an
\* object of another package) in the analysed package.
MaxUses == 2
\* Number of files of the analysed package (pass.Files).
NumFiles == 2
\* Number of source positions reserved for one statement of a file.
UseWidth == 24

\* The minor version of the default "go1.9999" (stdlib.go:44, :96).
DefaultMinor == 9999

NoPos == 0
Nil == << >>

----------------------------------------------------------------------------
(* go/version, cmp, path, strconv, strings                                 *)

\* cmp.Or over strings: the first argument that is not the zero value "".
CmpOr(a, b) == IF a # << >> THEN a ELSE b

CmpOr3(a, b, c) == CmpOr(a, CmpOr(b, c))

\* cmp.Or over identifier names, which the model keeps as strings.
CmpOrName(a, b) == IF a # "" THEN a ELSE b

\* The minor part of a valid version; "go1" has none and orders below "go1.0".
Minor(v) == IF Len(v) >= 2 THEN v[2] ELSE -1

\* go/version.Compare: -1, 0 or +1; an invalid version (here "") is less
\* than every valid one and equal to another invalid one.
VersionCompare(x, y) ==
    IF x = y THEN 0
    ELSE IF x = << >> THEN -1
    ELSE IF y = << >> THEN 1
    ELSE IF x[1] # y[1] THEN (IF x[1] < y[1] THEN -1 ELSE 1)
    ELSE IF Minor(x) < Minor(y) THEN -1
    ELSE IF Minor(x) > Minor(y) THEN 1
    ELSE 0

\* path.Base of a non-empty path: its last segment.
PathBase(p) == p[Len(p)]

\* strconv.Quote of a path: the double-quoted string literal denoting it.
Quote(p) == [quote |-> "double", text |-> p]

\* strconv.Unquote of a literal: the path and whether the literal is valid.
Unquote(lit) == [ok |-> lit.quote \in {"double", "back"}, path |-> lit.text]

\* The comments that the analysed source holds inside expressions.
CommentTokens == {" /* n */"}

\* printer.Fprint of an expression node: the tokens of the expression; the
\* comments of the source are not part of the node and are not printed.
Fprint(text) == SelectSeq(text, LAMBDA t : t \notin CommentTokens)

\* Index of the first "." token of s, 0 if there is none.
DotIndex(s) ==
    IF \E i \in 1..Len(s) : s[i] = "."
    THEN CHOOSE i \in 1..Len(s) : s[i] = "." /\ \A j \in 1..(i - 1) : s[j] # "."
    ELSE 0

\* strings.Cut(s, "."): the text before and after the first ".", and found.
CutDot(s) ==
    LET i == DotIndex(s)
    IN  IF i = 0
        THEN [before |-> s, after |-> << >>, found |-> FALSE]
        ELSE [before |-> SubSeq(s, 1, i - 1), after |-> SubSeq(s, i + 1, Len(s)),
              found |-> TRUE]

----------------------------------------------------------------------------
(* The registry                                                            *)

LoPath == <<"github.com", "samber", "lo">>
LoMutablePath == <<"github.com", "samber", "lo", "mutable">>
ConstraintsPath == <<"golang.org", "x", "exp", "constraints">>
XSlicesPath == <<"golang.org", "x", "exp", "slices">>
SyncmapPath == <<"golang.org", "x", "sync", "syncmap">>
SlicesPath == <<"slices">>

Go(minor) == <<1, minor>>
Go1 == <<1>>

NoRewrite == [kind |-> "nil"]
Tmpl(pattern) == [kind |-> "tmpl", pattern |-> pattern]
ToVariadic == [kind |-> "toVariadic"]
LessToCmp(reverse) == [kind |-> "lessToCmp", reverse |-> reverse]
KeyToCmp(arg) == [kind |-> "keyToCmp", arg |-> arg]
ToSlice(arg) == [kind |-> "toSlice", arg |-> arg]
ReorderArgs(order) == [kind |-> "reorderArgs", order |-> order]
Chain(fns) == [kind |-> "chain", fns |-> fns]

Rule(stdlibRef, minVersion, rewrite) ==
    [stdlib |-> stdlibRef, minVersion |-> minVersion, rewrite |-> rewrite]

\* "{{index .Args 0}}[{{index .Args 1}}:]": literal text and argument indexes.
DropPattern == <<[arg |-> 0], [text |-> "["], [arg |-> 1], [text |-> ":]"]>>

\* "{{index .Args 0}}[:len({{index .Args 0}})-{{index .Args 1}}]"
DropRightPattern ==
    <<[arg |-> 0], [text |-> "[:len("], [arg |-> 0], [text |-> ")-"], [arg |-> 1],
      [text |-> "]"]>>

\* The rules of "github.com/samber/lo", by symbol name.
loRules ==
    [n \in {"Chunk", "Drop", "DropRight", "Contains", "ContainsBy", "IndexOf", "Min",
            "MinBy", "Max", "MaxBy", "IsSorted", "Flatten", "Keys", "Values",
            "CoalesceOrEmpty"} |->
        CASE n = "Chunk" -> Rule(<<"slices", ".", "Chunk">>, Go(23), NoRewrite)
          [] n = "Drop" -> Rule(<< >>, Go1, Tmpl(DropPattern))
          [] n = "DropRight" -> Rule(<< >>, Go1, Tmpl(DropRightPattern))
          [] n = "Contains" -> Rule(<<"slices", ".", "Contains">>, Go(21), NoRewrite)
          [] n = "ContainsBy" -> Rule(<<"slices", ".", "ContainsFunc">>, Go(21), NoRewrite)
          [] n = "IndexOf" -> Rule(<<"slices", ".", "Index">>, Go(21), NoRewrite)
          [] n = "Min" -> Rule(<<"slices", ".", "Min">>, Go(21), NoRewrite)
          [] n = "MinBy" -> Rule(<<"slices", ".", "MinFunc">>, Go(21), LessToCmp(FALSE))
          [] n = "Max" -> Rule(<<"slices", ".", "Max">>, Go(21), NoRewrite)
          [] n = "MaxBy" -> Rule(<<"slices", ".", "MaxFunc">>, Go(21), LessToCmp(TRUE))
          [] n = "IsSorted" -> Rule(<<"slices", ".", "IsSorted">>, Go(21), NoRewrite)
          [] n = "Flatten" -> Rule(<<"slices", ".", "Concat">>, Go(22), ToVariadic)
          [] n = "Keys" -> Rule(<<"maps", ".", "Keys">>, Go(23), NoRewrite)
          [] n = "Values" -> Rule(<<"maps", ".", "Values">>, Go(23), NoRewrite)
          [] n = "CoalesceOrEmpty" -> Rule(<<"cmp", ".", "Or">>, Go(22), NoRewrite)]

\* The rules of "github.com/samber/lo/mutable".
loMutableRules ==
    [n \in {"Reverse"} |-> Rule(<<"slices", ".", "Reverse">>, Go(21), NoRewrite)]

\* The rule of "golang.org/x/exp/constraints" that the analyzer's test data
\* expects (Ordered becomes cmp.Ordered); its table entry is not in the sources.
constraintsRules ==
    [n \in {"Ordered"} |-> Rule(<<"cmp", ".", "Ordered">>, Go(21), NoRewrite)]

\* The rules of "github.com/samber/lo" that the revisions of the table kept
\* with the test data add: IsSortedByKey with keyToCmp(1), and Repeat with
\* chain(toSlice(0), reorderArgs(1, 0)), whose minimum version that revision
\* writes "v1.21" where the others write "go1.21".
loRulesOfRevisions ==
    [n \in {"IsSortedByKey", "Repeat"} |->
        IF n = "IsSortedByKey"
        THEN Rule(<<"slices", ".", "IsSortedFunc">>, Go(21), KeyToCmp(1))
        ELSE Rule(<<"slices", ".", "Repeat">>, Go(21),
                  Chain(<<ToSlice(0), ReorderArgs(<<1, 0>>)>>))]

\* symbols: package path -> symbol name -> rule.
symbols ==
    [p \in {LoPath, LoMutablePath, ConstraintsPath} |->
        IF p = LoPath THEN loRules @@ loRulesOfRevisions
        ELSE IF p = LoMutablePath THEN loMutableRules
        ELSE constraintsRules]

ImportRule(stdlibPath, minVersion, pkgName) ==
    [stdlib |-> stdlibPath, minVersion |-> minVersion, pkgName |-> pkgName]

\* imports: package path -> replacement package.
imports ==
    [p \in {<<"golang.org", "x", "exp", "maps">>, <<"golang.org", "x", "exp", "rand">>,
            XSlicesPath, <<"golang.org", "x", "exp", "slog">>,
            <<"golang.org", "x", "net", "context">>, SyncmapPath} |->
        CASE p = <<"golang.org", "x", "exp", "maps">> -> ImportRule(<<"maps">>, Go(21), "")
          [] p = <<"golang.org", "x", "exp", "rand">> ->
                ImportRule(<<"math", "rand", "v2">>, Go(22), "rand")
          [] p = XSlicesPath -> ImportRule(<<"slices">>, Go(21), "")
          [] p = <<"golang.org", "x", "exp", "slog">> -> ImportRule(<<"log", "slog">>, Go(21), "")
          [] p = <<"golang.org", "x", "net", "context">> -> ImportRule(<<"context">>, Go(7), "")
          [] p = SyncmapPath -> ImportRule(<<"sync">>, Go(7), "")]

\* symbols[path][name] with the comma-ok result (stdlib.go:103).
LookupSymbol(path, name) ==
    IF path \in DOMAIN symbols /\ name \in DOMAIN symbols[path]
    THEN [ok |-> TRUE, repl |-> symbols[path][name]]
    ELSE [ok |-> FALSE, repl |-> Rule(<< >>, << >>, NoRewrite)]

----------------------------------------------------------------------------
(* The analysed package: syntax trees, positions and type information      *)

\* An expression: its source text and the type the type checker gives it.
TypedExpr(text, type) == [kind |-> "expr", text |-> text, type |-> type]
Expr(text) == TypedExpr(text, <<"T">>)
\* The selector itself, where it is an argument of an enclosing call.
SelArg == [kind |-> "sel", type |-> <<"func">>]
\* A return statement of a function literal: the number of its results, the
\* node kind and operator of its first result, the operand texts, and the
\* extent of that result relative to the statement's place in the file.
Ret(nres, node, op, x, y, off, len) ==
    [nres |-> nres, node |-> node, op |-> op, x |-> x, y |-> y, off |-> off, len |-> len]
\* A function literal: its result fields and the return statements that
\* ast.Preorder meets in its body, in that order (a literal nested in the
\* body contributes its own return statements).
\* names and paramType are the names and the type of its first parameter field.
ParamLit(names, paramType, results, returns) ==
    [kind |-> "funclit", names |-> names, paramType |-> paramType, results |-> results,
     returns |-> returns, type |-> <<"func">>]
FuncLit(results, returns) == ParamLit(<<"x", "y">>, <<"string">>, results, returns)

Snippet(impName, pkgName, path, sym, shape, args) ==
    [impName |-> impName, pkgName |-> pkgName, path |-> path, sym |-> sym,
     shape |-> shape, args |-> args]

\* func(x, y string) bool { return x < y }
LessLit == FuncLit(1, <<Ret(1, "BinaryExpr", "<", <<"x">>, <<"y">>, 16, 3)>>)
\* func(x, y string) bool { return rank(func() bool { return x > y }) < 1 }
NestedLit ==
    FuncLit(1, <<Ret(1, "BinaryExpr", "<", <<"rank(func() bool { return x > y })">>, <<"1">>, 16, 6),
                 Ret(1, "BinaryExpr", ">", <<"x">>, <<"y">>, 18, 2)>>)

\* The statements a file is made of. Each holds one identifier that resolves
\* to an object of an imported package:
\*   callee  Q.S(args)          the selector is the function of a call
\*   arg     apply(Q.S, args)   the selector is an argument of a call
\*   field   interface { Q.S }  the selector is the type of a field
\*   other   f := Q.S           the selector's parent is another node
\*   bare    S(args)            a bare identifier of a dot import
Snippets ==
    << Snippet("", "lo", LoPath, "Chunk", "callee", <<Expr(<<"a">>), Expr(<<"2">>)>>),
       Snippet("hi", "hi", LoPath, "Chunk", "callee", <<Expr(<<"a">>), Expr(<<"2">>)>>),
       Snippet(".", ".", LoPath, "Chunk", "bare", <<Expr(<<"a">>), Expr(<<"2">>)>>),
       Snippet("", "lo", LoPath, "Drop", "callee", <<Expr(<<"a">>), Expr(<<"2">>)>>),
       Snippet("hi", "hi", LoPath, "Drop", "callee", <<Expr(<<"a">>), Expr(<<"2">>)>>),
       Snippet("", "lo", LoPath, "MinBy", "callee", <<Expr(<<"a">>), Expr(<<"less">>)>>),
       Snippet("", "lo", LoPath, "MinBy", "callee", <<Expr(<<"a">>), LessLit>>),
       Snippet("", "lo", LoPath, "MaxBy", "callee", <<Expr(<<"a">>), NestedLit>>),
       Snippet("", "lo", LoPath, "Keyify", "callee", <<Expr(<<"a">>)>>),
       Snippet("", "lo", LoPath, "Flatten", "callee", <<Expr(<<"c">>)>>),
       Snippet("", "lo", LoPath, "Min", "other", << >>),
       Snippet("", "lo", LoPath, "Flatten", "arg", <<SelArg, Expr(<<"c">>)>>),
       Snippet("xslices", "xslices", XSlicesPath, "Clone", "callee", <<Expr(<<"a">>)>>),
       Snippet("", "syncmap", SyncmapPath, "Map", "other", << >>),
       Snippet("", "slices", SlicesPath, "Clone", "callee", <<Expr(<<"b">>)>>),
       Snippet("", "constraints", ConstraintsPath, "Ordered", "field", << >>) >>


\* func(x, y string) bool { return x op y }
OpLit(op) == FuncLit(1, <<Ret(1, "BinaryExpr", op, <<"x">>, <<"y">>, 16, 3)>>)
\* func(x, y string) bool { if b == "" { return x < y }; return x > y }
TwoReturnLit ==
    FuncLit(1, <<Ret(1, "BinaryExpr", "<", <<"x">>, <<"y">>, 16, 2),
                 Ret(1, "BinaryExpr", ">", <<"x">>, <<"y">>, 19, 2)>>)
\* func(x, y string) (ok bool) { return }
BareReturnLit == FuncLit(1, <<Ret(0, "", "", << >>, << >>, 16, 0)>>)
\* func(x, y string) bool { return less(x, y) }
CallReturnLit ==
    FuncLit(1, <<Ret(1, "CallExpr", "", <<"less", "(", "x", ", ", "y", ")">>, << >>, 16, 3)>>)
\* func(string) int { return 1 }
UnnamedKeyLit ==
    ParamLit(<< >>, <<"string">>, 1, <<Ret(1, "BasicLit", "", <<"1">>, << >>, 16, 1)>>)
\* func(x string) (y int) { return }
BareKeyLit == ParamLit(<<"x">>, <<"string">>, 1, <<Ret(0, "", "", << >>, << >>, 16, 0)>>)
\* func(x string) string { return b }
OtherKeyLit ==
    ParamLit(<<"x">>, <<"string">>, 1, <<Ret(1, "Ident", "", <<"b">>, << >>, 16, 1)>>)
\* func(x string) int { return len(x) }
LenKeyLit ==
    ParamLit(<<"x">>, <<"string">>, 1,
             <<Ret(1, "CallExpr", "", <<"len", "(", "x", ")">>, << >>, 16, 3)>>)
\* func(x string) int { if b == "" { return len(x) % 2 }; return len(x) }
TwoKeyLit ==
    ParamLit(<<"x">>, <<"string">>, 1,
             <<Ret(1, "BinaryExpr", "%", <<"len", "(", "x", ")">>, <<"2">>, 16, 2),
               Ret(1, "CallExpr", "", <<"len", "(", "x", ")">>, << >>, 19, 2)>>)
\* func(x string) int { if b == "" { return len(x) }; return 0 }
MixedKeyLit ==
    ParamLit(<<"x">>, <<"string">>, 1,
             <<Ret(1, "CallExpr", "", <<"len", "(", "x", ")">>, << >>, 16, 2),
               Ret(1, "BasicLit", "", <<"0">>, << >>, 19, 2)>>)

LoCall(sym, args) == Snippet("", "lo", LoPath, sym, "callee", args)

\* Calls for the rewrite strategies, each with the shapes of literal that the
\* strategy tells apart.
StrategySnippets ==
    << LoCall("MinBy", <<Expr(<<"a">>), OpLit("<")>>),
       LoCall("MinBy", <<Expr(<<"a">>), OpLit("<=")>>),
       LoCall("MinBy", <<Expr(<<"a">>), OpLit(">")>>),
       LoCall("MinBy", <<Expr(<<"a">>), OpLit(">=")>>),
       LoCall("MaxBy", <<Expr(<<"a">>), OpLit("<")>>),
       LoCall("MaxBy", <<Expr(<<"a">>), OpLit("<=")>>),
       LoCall("MaxBy", <<Expr(<<"a">>), OpLit(">")>>),
       LoCall("MaxBy", <<Expr(<<"a">>), OpLit(">=")>>),
       LoCall("MaxBy", <<Expr(<<"a">>), TwoReturnLit>>),
       LoCall("MinBy", <<Expr(<<"a">>), BareReturnLit>>),
       LoCall("MaxBy", <<Expr(<<"a">>), CallReturnLit>>),
       LoCall("MaxBy", <<Expr(<<"a">>), OpLit("==")>>),
       LoCall("MaxBy", <<Expr(<<"a">>), Expr(<<"less">>)>>),
       LoCall("IsSortedByKey", <<Expr(<<"a">>), Expr(<<"key">>)>>),
       LoCall("IsSortedByKey", <<Expr(<<"a">>), UnnamedKeyLit>>),
       LoCall("IsSortedByKey", <<Expr(<<"a">>), BareKeyLit>>),
       LoCall("IsSortedByKey", <<Expr(<<"a">>), OtherKeyLit>>),
       LoCall("IsSortedByKey", <<Expr(<<"a">>), LenKeyLit>>),
       LoCall("IsSortedByKey", <<Expr(<<"a">>), TwoKeyLit>>),
       LoCall("IsSortedByKey", <<Expr(<<"a">>), MixedKeyLit>>),
       LoCall("Repeat", <<TypedExpr(<<"3">>, <<"int">>), TypedExpr(<<"v">>, <<"string">>)>>),
       LoCall("Repeat", <<TypedExpr(<<"pair", "(", ")">>, <<"(int, string)">>)>>),
       LoCall("DropRight", <<Expr(<<"a">>), Expr(<<"2">>)>>),
       LoCall("Drop", <<Expr(<<"a">>), Expr(<<"n", " /* n */", " ", "+", " ", "1">>)>>),
       LoCall("Drop", <<Expr(<<"split", "(", ")">>)>>),
       Snippet("", "lo", LoPath, "IsSortedByKey", "arg", <<SelArg>>) >>

\* Every statement the model knows.
Catalogue == Snippets \o StrategySnippets

VARIABLES
    pkgGoVersion,  \* pass.Pkg.GoVersion()
    files,         \* pass.Files with pass.TypesInfo: the parsed, type-checked files
    fi,            \* index of the file the loop of Run is at
    pc,            \* the pass Run is at for that file
    todo,          \* identifiers that range over TypesInfo.Uses has yet to yield
    references,    \* references: file -> local package name -> count
    diags,         \* the diagnostics reported with pass.Report, in order
    panicked       \* whether a run-time panic ended the run

vars == <<pkgGoVersion, files, fi, pc, todo, references, diags, panicked>>

\* Positions: the files of the package lie one after the other, each with
\* its package clause, its import declaration and its statements.
ImportRegion == 3 * MaxUses + 4
FileSize == ImportRegion + MaxUses * UseWidth + 1
FilePos(f) == (f - 1) * FileSize + 1
UseBase(f, i) == FilePos(f) + ImportRegion + (i - 1) * UseWidth
\* file.End(): the end of the last declaration, or of the package clause.
FileEnd(f, n) == IF n = 0 THEN FilePos(f) + 1 ELSE UseBase(f, n) + UseWidth

\* The elements of a finite set of integers in increasing order.
SortedSeq(S) ==
    [k \in 1..Cardinality(S) |-> CHOOSE x \in S : Cardinality({y \in S : y < x}) = k - 1]

ImportKey(s) == <<s.impName, s.pkgName, s.path>>

\* The k-th import spec of file f, for the import that snippet s refers to,
\* with the PkgName that TypesInfo.PkgNameOf gives for it.
ImportSpecAt(f, k, s) ==
    [Name |-> IF s.impName = "" THEN Nil
              ELSE [Pos |-> FilePos(f) + 3 * k - 1, End |-> FilePos(f) + 3 * k,
                    Name |-> s.impName],
     Path |-> [Pos |-> FilePos(f) + 3 * k, End |-> FilePos(f) + 3 * k + 1,
               Value |-> Quote(s.path)],
     Pos |-> IF s.impName = "" THEN FilePos(f) + 3 * k ELSE FilePos(f) + 3 * k - 1,
     End |-> FilePos(f) + 3 * k + 1,
     PkgName |-> [Name |-> s.pkgName, Imported |-> s.path,
                  Pos |-> IF s.impName = "" THEN FilePos(f) + 3 * k
                          ELSE FilePos(f) + 3 * k - 1]]

\* The statements of uses that are the first to refer to their import.
FirstUses(uses) ==
    SortedSeq({i \in 1..Len(uses) :
        \A j \in 1..(i - 1) :
            ImportKey(Catalogue[uses[j]]) # ImportKey(Catalogue[uses[i]])})

\* file.Imports: one import spec per package name the statements refer to.
ImportsOf(f, uses, order) ==
    [k \in 1..Len(order) |-> ImportSpecAt(f, k, Catalogue[uses[order[k]]])]

\* The import declaration of the file (the first GenDecl with Tok IMPORT of
\* file.Decls), parenthesized when it holds several specs; Nil without one.
ImportDeclOf(f, n) ==
    IF n = 0 THEN Nil
    ELSE [Lparen |-> IF n >= 2 THEN FilePos(f) + 1 ELSE NoPos,
          End |-> IF n >= 2 THEN FilePos(f) + 3 * n + 2 ELSE FilePos(f) + 3 * n + 1]

ReturnAt(b, t) ==
    [Results |-> [q \in 1..t.nres |->
        [kind |-> t.node, Op |-> t.op, X |-> t.x, Y |-> t.y,
         Pos |-> b + t.off, End |-> b + t.off + t.len]]]

\* Argument j of the call of the statement at b.
ArgAt(b, j, a, s) ==
    CASE a.kind = "funclit" ->
           [kind |-> "FuncLit", Pos |-> b + 10, End |-> b + 23, text |-> <<"func">>,
            type |-> a.type,
            Params |-> [Opening |-> b + 11, Closing |-> b + 13, Names |-> a.names,
                        Type |-> a.paramType],
            Results |-> [r \in 1..a.results |-> [Pos |-> b + 14, End |-> b + 15]],
            Returns |-> [r \in 1..Len(a.returns) |-> ReturnAt(b, a.returns[r])]]
      [] a.kind = "sel" ->
           [kind |-> "SelectorExpr", Pos |-> b + 4, End |-> b + 7,
            text |-> <<s.pkgName, ".", s.sym>>, type |-> a.type]
      [] OTHER ->
           [kind |-> "Ident", Pos |-> IF j = 1 THEN b + 8 ELSE b + 10,
            End |-> IF j = 1 THEN b + 9 ELSE b + 23, text |-> a.text, type |-> a.type]

IdentAt(b, s) == [kind |-> "Ident", Pos |-> b + 6, End |-> b + 7, Name |-> s.sym]

SelAt(b, s) ==
    [kind |-> "SelectorExpr", Pos |-> b + 4, End |-> b + 7,
     X |-> [kind |-> "Ident", Pos |-> b + 4, End |-> b + 5, Name |-> s.pkgName],
     Sel |-> IdentAt(b, s)]

CallAt(b, s) ==
    [kind |-> "CallExpr",
     Pos |-> CASE s.shape = "callee" -> b + 4 [] s.shape = "arg" -> b [] OTHER -> b + 6,
     End |-> b + UseWidth,
     Fun |-> CASE s.shape = "callee" -> SelAt(b, s)
               [] s.shape = "arg" ->
                    [kind |-> "Ident", Pos |-> b, End |-> b + 3, Name |-> "apply"]
               [] OTHER -> IdentAt(b, s),
     Args |-> [j \in 1..Len(s.args) |-> ArgAt(b, j, s.args[j], s)]]

\* The statement with snippet s at b: its identifier, the object the
\* identifier resolves to (TypesInfo.Uses), the PkgName its qualifier resolves
\* to, and astutil.PathEnclosingInterval(file, ident.Pos(), ident.End()).
UseAt(b, s, specs) ==
    [ident |-> IdentAt(b, s),
     obj |-> [Pkg |-> s.path, Name |-> s.sym],
     qualified |-> s.shape # "bare",
     X |-> SelAt(b, s).X,
     PkgName |-> specs[CHOOSE k \in 1..Len(specs) :
                          /\ specs[k].PkgName.Name = s.pkgName
                          /\ specs[k].PkgName.Imported = s.path].PkgName,
     pathNodes |->
        CASE s.shape \in {"callee", "arg"} -> <<IdentAt(b, s), SelAt(b, s), CallAt(b, s)>>
          [] s.shape = "field" -> <<IdentAt(b, s), SelAt(b, s), [kind |-> "Field"]>>
          [] s.shape = "other" -> <<IdentAt(b, s), SelAt(b, s), [kind |-> "AssignStmt"]>>
          [] OTHER -> <<IdentAt(b, s), CallAt(b, s), [kind |-> "ExprStmt"]>>]

FileOf(f, goVersion, uses, specs) ==
    [GoVersion |-> goVersion,
     Pos |-> FilePos(f),
     End |-> FileEnd(f, Len(uses)),
     Imports |-> specs,
     ImportDecl |-> ImportDeclOf(f, Len(specs)),
     Uses |-> [i \in 1..Len(uses) |-> UseAt(UseBase(f, i), Catalogue[uses[i]], specs)]]

\* File f of the package, with the given go:build version and statements.
ParseFile(f, goVersion, uses) ==
    FileOf(f, goVersion, uses, ImportsOf(f, uses, FirstUses(uses)))

\* The identifiers of TypesInfo.Uses that resolve to objects of imported
\* packages, as <<file, statement>>, and what is known of each.
Idents == {id \in (1..NumFiles) \X (1..MaxUses) : id[2] <= Len(files[id[1]].Uses)}
Use(id) == files[id[1]].Uses[id[2]]

----------------------------------------------------------------------------
(* Rewrite strategies (rewriteFunc): the edits, ok, and whether it panics   *)

Edit(pos, end, newText) == [Pos |-> pos, End |-> end, NewText |-> newText]

RewriteFailed == [edits |-> << >>, ok |-> FALSE, panic |-> FALSE]
RewritePanic == [edits |-> << >>, ok |-> FALSE, panic |-> TRUE]
RewriteOk(edits) == [edits |-> edits, ok |-> TRUE, panic |-> FALSE]

\* template.Execute: "index .Args n" fails when the call has no argument n.
TemplateFails(pattern, args) ==
    \E k \in 1..Len(pattern) : "arg" \in DOMAIN pattern[k] /\ pattern[k].arg >= Len(args)

RECURSIVE TemplateText(_, _)
TemplateText(pattern, args) ==
    IF pattern = << >> THEN << >>
    ELSE LET h == Head(pattern)
         IN  (IF "arg" \in DOMAIN h THEN args[h.arg + 1] ELSE <<h.text>>)
                 \o TemplateText(Tail(pattern), args)

\* tmpl(templateStr): replaces the entire call.
tmpl(pattern, call) ==
    IF call.Fun.kind # "SelectorExpr" THEN RewriteFailed
    ELSE IF call.Fun.X.kind # "Ident" THEN RewriteFailed
    ELSE LET args == [j \in 1..Len(call.Args) |-> Fprint(call.Args[j].text)]
         IN  IF TemplateFails(pattern, args) THEN RewriteFailed
             ELSE RewriteOk(<<Edit(call.Pos, call.End, TemplateText(pattern, args))>>)

\* toVariadic: "..." after the last argument.
toVariadic(call) ==
    IF Len(call.Args) > 0
    THEN LET arg == call.Args[Len(call.Args)]
         IN  RewriteOk(<<Edit(arg.End, arg.End, <<"...">>)>>)
    ELSE RewriteFailed

\* The operands of cmp.Compare for one return statement of lessToCmp.
CompareOperands(reverse, binExpr) ==
    IF binExpr.Op \in {"<", "<="}
    THEN (IF reverse THEN <<Fprint(binExpr.Y), Fprint(binExpr.X)>>
          ELSE <<Fprint(binExpr.X), Fprint(binExpr.Y)>>)
    ELSE (IF ~reverse THEN <<Fprint(binExpr.Y), Fprint(binExpr.X)>>
          ELSE <<Fprint(binExpr.X), Fprint(binExpr.Y)>>)

\* The loop of lessToCmp over the return statements, from the n-th on.
RECURSIVE lessToCmpReturns(_, _, _, _)
lessToCmpReturns(reverse, returns, n, edits) ==
    IF n > Len(returns) THEN RewriteOk(edits)
    ELSE LET retStmt == returns[n]
         IN  IF Len(retStmt.Results) # 1
             THEN lessToCmpReturns(reverse, returns, n + 1, edits)
             ELSE LET binExpr == retStmt.Results[1]
                  IN  IF binExpr.kind # "BinaryExpr" THEN RewriteFailed
                      ELSE IF binExpr.Op \notin {"<", "<=", ">", ">="} THEN RewriteFailed
                      ELSE LET lr == CompareOperands(reverse, binExpr)
                               text == <<"cmp.Compare(">> \o lr[1] \o <<", ">> \o lr[2] \o <<")">>
                           IN  lessToCmpReturns(reverse, returns, n + 1,
                                   Append(edits, Edit(binExpr.Pos, binExpr.End, text)))

\* lessToCmp(reverse): a less function literal becomes a cmp function.
lessToCmp(reverse, call) ==
    IF Len(call.Args) = 0 THEN RewritePanic \* index out of range
    ELSE LET funcLit == call.Args[Len(call.Args)]
         IN  IF funcLit.kind # "FuncLit" THEN RewriteFailed
             ELSE LET edits == IF Len(funcLit.Results) > 0
                               THEN <<Edit(funcLit.Results[1].Pos, funcLit.Results[1].End,
                                           <<"int">>)>>
                               ELSE << >>
                  IN  lessToCmpReturns(reverse, funcLit.Returns, 1, edits)

\* ast.Inspect of keyToCmp: every identifier named from is renamed to.
RenameIdent(text, from, to) ==
    [k \in 1..Len(text) |-> IF text[k] = from THEN to ELSE text[k]]

\* hasParam taken to be set for every expression.
HasIdentAlways(text, name) == TRUE

\* Whether the expression holds an identifier of that name (hasParam).
HasIdent(text, name) == \E k \in 1..Len(text) : text[k] = name

\* printer.Fprint of a result expression of a return statement.
FprintResult(res) ==
    IF res.kind = "BinaryExpr"
    THEN Fprint(res.X) \o <<" ", res.Op, " ">> \o Fprint(res.Y)
    ELSE Fprint(res.X)

\* The edit of keyToCmp for one result expression.
KeyCompareEdit(res, result, paramName) ==
    Edit(res.Pos, res.End,
         <<"cmp.Compare(">> \o result \o <<", ">> \o RenameIdent(result, paramName, "next")
             \o <<")">>)

\* The loop of keyToCmp over the return statements, from the n-th on.
RECURSIVE keyToCmpReturns(_, _, _, _)
keyToCmpReturns(paramName, returns, n, edits) ==
    IF n > Len(returns) THEN RewriteOk(edits)
    ELSE IF Len(returns[n].Results) # 1 THEN RewriteFailed
    ELSE IF ~HasIdent(FprintResult(returns[n].Results[1]), paramName) THEN RewriteFailed
    ELSE keyToCmpReturns(paramName, returns, n + 1,
             Append(edits, KeyCompareEdit(returns[n].Results[1],
                                          FprintResult(returns[n].Results[1]), paramName)))

\* The edits of keyToCmp on the signature of the literal: the result type
\* becomes int, the parameter list becomes "name, next type".
KeySignatureEdits(funcLit) ==
    <<Edit(funcLit.Results[1].Pos, funcLit.Results[1].End, <<"int">>),
      Edit(funcLit.Params.Opening + 1, funcLit.Params.Closing,
           <<funcLit.Params.Names[1], ", next ">> \o Fprint(funcLit.Params.Type))>>

keyToCmpLit(funcLit) ==
    IF funcLit.kind # "FuncLit" THEN RewriteFailed
    ELSE IF Len(funcLit.Results) = 0 THEN RewritePanic \* Type.Results is nil
    ELSE IF Len(funcLit.Params.Names) # 1 THEN RewriteFailed
    ELSE keyToCmpReturns(funcLit.Params.Names[1], funcLit.Returns, 1,
                         KeySignatureEdits(funcLit))

\* keyToCmp(arg): a key function literal becomes a cmp function.
keyToCmp(arg, call) ==
    IF Len(call.Args) <= arg THEN RewritePanic \* index out of range
    ELSE keyToCmpLit(call.Args[arg + 1])

\* toSlice(arg): the argument becomes a slice literal of its type.
toSlice(arg, call) ==
    IF Len(call.Args) <= arg THEN RewriteFailed
    ELSE IF call.Args[arg + 1].type = << >> THEN RewriteFailed
    ELSE RewriteOk(<<Edit(call.Args[arg + 1].Pos, call.Args[arg + 1].End,
                          <<"[]">> \o call.Args[arg + 1].type \o <<"{">>
                              \o Fprint(call.Args[arg + 1].text) \o <<"}">>)>>)

\* reorderArgs(order...): argument i gets the source text of argument
\* order[i], read from the file (which the model takes to be readable).
reorderArgs(order, call) ==
    IF Len(call.Args) < Len(order) THEN RewriteFailed
    ELSE IF \E i \in 1..Len(order) : order[i] < 0 \/ order[i] >= Len(call.Args)
    THEN RewriteFailed
    ELSE RewriteOk([i \in 1..Len(order) |->
                       Edit(call.Args[i].Pos, call.Args[i].End, call.Args[order[i] + 1].text)])

\* A rewrite function that is no chain.
RewriteStep(rewrite, call) ==
    CASE rewrite.kind = "tmpl" -> tmpl(rewrite.pattern, call)
      [] rewrite.kind = "toVariadic" -> toVariadic(call)
      [] rewrite.kind = "lessToCmp" -> lessToCmp(rewrite.reverse, call)
      [] rewrite.kind = "keyToCmp" -> keyToCmp(rewrite.arg, call)
      [] rewrite.kind = "toSlice" -> toSlice(rewrite.arg, call)
      [] rewrite.kind = "reorderArgs" -> reorderArgs(rewrite.order, call)

\* The outcome of a step of chain, added to the edits so far.
ChainStep(step, allEdits) ==
    IF step.panic THEN RewritePanic
    ELSE IF ~step.ok THEN RewriteFailed
    ELSE RewriteOk(allEdits \o step.edits)

\* chain(fn...): applies the rewrite functions in order, from the n-th on.
RECURSIVE chain(_, _, _, _)
chain(fns, call, n, acc) ==
    IF n > Len(fns) \/ ~acc.ok THEN acc
    ELSE chain(fns, call, n + 1, ChainStep(RewriteStep(fns[n], call), acc.edits))

\* repl.rewrite(pass, call)
Rewrite(rewrite, call) ==
    IF rewrite.kind = "chain" THEN chain(rewrite.fns, call, 1, RewriteOk(<< >>))
    ELSE RewriteStep(rewrite, call)


----------------------------------------------------------------------------
(* stdlib.go                                                               *)

QuotedText(p) == <<"dquote">> \o p \o <<"dquote">>

\* The edit that adds the import of stdlibPkg to the file's import
\* declaration (stdlib.go:169-189).
ImportInsertion(genDecl, stdlibPkg) ==
    IF genDecl = Nil THEN << >>
    ELSE IF genDecl.Lparen # NoPos
    THEN <<Edit(genDecl.End - 1, genDecl.End - 1,
                <<"newline", "tab">> \o QuotedText(stdlibPkg))>>
    ELSE <<Edit(genDecl.End, genDecl.End,
                <<"newline", "import ">> \o QuotedText(stdlibPkg))>>

\* A check that never finds the import.
AlreadyImportedNever(file, stdlibPkg) == FALSE

\* Whether the file imports the package already (stdlib.go:164-167).
AlreadyImported(file, stdlibPkg) ==
    \E k \in 1..Len(file.Imports) : file.Imports[k].Path.Value = Quote(stdlibPkg)

\* The edits that replace the package and function identifiers by the two
\* halves of "pkg.Symbol" (stdlib.go:159-162).
BaseEdits(pkg, fn, cut) ==
    <<Edit(pkg.Pos, pkg.End, cut.before), Edit(fn.Pos, fn.End, cut.after)>>

\* addReplacementTextEdit(file, pkg, fn, stdlib): the edits, or a panic.
addReplacementTextEdit(file, pkg, fn, stdlibRef) ==
    IF stdlibRef = << >> THEN [edits |-> << >>, panic |-> FALSE]
    ELSE IF ~CutDot(stdlibRef).found THEN [edits |-> << >>, panic |-> TRUE]
    ELSE IF AlreadyImported(file, CutDot(stdlibRef).before)
    THEN [edits |-> BaseEdits(pkg, fn, CutDot(stdlibRef)), panic |-> FALSE]
    ELSE [edits |-> BaseEdits(pkg, fn, CutDot(stdlibRef))
                        \o ImportInsertion(file.ImportDecl, CutDot(stdlibRef).before),
          panic |-> FALSE]

\* A version that puts the module's before the file's.
EffectiveVersionModuleFirst(fileGoVersion, pkgVersion) ==
    CmpOr3(pkgVersion, fileGoVersion, Go(DefaultMinor))

\* goVersion of a file (stdlib.go:44, :96).
EffectiveVersion(fileGoVersion, pkgVersion) ==
    CmpOr3(fileGoVersion, pkgVersion, Go(DefaultMinor))

\* A gate that lets every rule through.
VersionAllowsAlways(goVersion, minVersion) == TRUE

\* The version gate: the rule applies unless version.Compare is negative
\* (stdlib.go:53, :104).
VersionAllows(goVersion, minVersion) == ~(VersionCompare(goVersion, minVersion) < 0)

\* Whether the loop of processFileSymbols passes over the identifier because
\* it lies outside the file or its object has no package (stdlib.go:99).
\* A filter that leaves the position of the identifier out.
OutsideFileByObject(file, ident, obj) == obj.Pkg = Nil

OutsideFile(file, ident, obj) ==
    ident.Pos < file.Pos \/ ident.End > file.End \/ obj.Pkg = Nil

\* A path test that lets calls alone through.
ExpectedPathCallOnly(pathNodes, ident) ==
    /\ ~(Len(pathNodes) < 3)
    /\ pathNodes[2].kind = "SelectorExpr"
    /\ pathNodes[2].Sel = ident
    /\ pathNodes[3].kind = "CallExpr"

\* Whether the path is ident -> SelectorExpr -> CallExpr or Field
\* (stdlib.go:113-121).
ExpectedPath(pathNodes, ident) ==
    /\ ~(Len(pathNodes) < 3)
    /\ pathNodes[2].kind = "SelectorExpr"
    /\ pathNodes[2].Sel = ident
    /\ pathNodes[3].kind \in {"CallExpr", "Field"}

\* A count that takes in the references left without edits.
RecordedAlways(edits) == Len(edits) >= 0

\* Whether the reference is recorded in references (stdlib.go:131).
Recorded(edits) == Len(edits) > 0

\* Edits that keep the base rename when the rewrite fails.
KeptEditsBaseOnFailure(base, rw) ==
    IF rw.ok THEN base.edits \o rw.edits ELSE base.edits

\* The edits kept after the rewrite (stdlib.go:124-130).
KeptEdits(base, rw) == IF rw.ok THEN base.edits \o rw.edits ELSE << >>

\* The outcome for a matched identifier with the expected path: the edits,
\* the package name to record it under ("" for none), or a panic where
\* sel.X is no identifier (stdlib.go:131-133).
RecordEdits(base, rw, x, edits) ==
    IF base.panic \/ rw.panic \/ (Recorded(edits) /\ x.kind # "Ident")
    THEN [edits |-> << >>, record |-> "", panic |-> TRUE]
    ELSE [edits |-> edits, record |-> IF Recorded(edits) THEN x.Name ELSE "",
          panic |-> FALSE]

\* The rewrite of the enclosing node, if it is a call and the rule has one
\* (stdlib.go:124-125).
RewriteOf(repl, node) ==
    IF node.kind = "CallExpr" /\ repl.rewrite.kind # "nil"
    THEN Rewrite(repl.rewrite, node)
    ELSE RewriteOk(<< >>)

EditsWith(base, rw, x) == RecordEdits(base, rw, x, KeptEdits(base, rw))

\* The edits of a matched identifier (stdlib.go:108-134).
SymbolEdits(file, ident, pathNodes, repl) ==
    IF ~ExpectedPath(pathNodes, ident)
    THEN [edits |-> << >>, record |-> "", panic |-> FALSE]
    ELSE EditsWith(addReplacementTextEdit(file, pathNodes[2].X, pathNodes[2].Sel, repl.stdlib),
                   RewriteOf(repl, pathNodes[3]), pathNodes[2].X)

\* A message that leaves the replacement of a rule without one empty.
SymbolMessageNoBuiltin(obj, repl) ==
    obj.Pkg \o <<".", obj.Name, " can be replaced with ">> \o repl.stdlib

\* The message of a call-site diagnostic (stdlib.go:141).
SymbolMessage(obj, repl) ==
    obj.Pkg \o <<".", obj.Name, " can be replaced with ">> \o CmpOr(repl.stdlib, <<"builtin">>)

\* The suggested fixes of a call-site diagnostic (stdlib.go:142).
SymbolFixes(edits) == <<[Message |-> "Replace with stdlib", TextEdits |-> edits]>>

SymbolDiagnostic(ident, obj, repl, edits) ==
    [Category |-> "stdlib", Pos |-> ident.Pos, End |-> ident.End,
     Message |-> SymbolMessage(obj, repl),
     SuggestedFixes |-> SymbolFixes(edits)]

EmptyMap == [k \in {} |-> 0]
MapGet(m, k) == IF k \in DOMAIN m THEN m[k] ELSE 0
\* An increment that forgets the counts under the other names.
MapIncAlone(m, k) == [x \in {k} |-> MapGet(m, k) + 1]

\* An increment by two.
MapIncTwice(m, k) == [x \in DOMAIN m \cup {k} |-> IF x = k THEN MapGet(m, k) + 2 ELSE m[x]]
MapInc(m, k) == [x \in DOMAIN m \cup {k} |-> IF x = k THEN MapGet(m, k) + 1 ELSE m[x]]

\* Whether the qualifier of identifier id is a use of pkgName (stdlib.go:75).
\* The identifier is the qualifier of any package.
UsesAnyPkgName(id, pkgName) == Use(id).qualified

UsesPkgName(id, pkgName) == Use(id).qualified /\ Use(id).PkgName = pkgName

\* (*types.PkgName).String(): "package name" and the path when it differs.
ObjectString(pkgName) ==
    IF pkgName.Imported # << >> /\ pkgName.Imported # <<pkgName.Name>>
    THEN <<"package ", pkgName.Name, " (">> \o QuotedText(pkgName.Imported) \o <<")">>
    ELSE <<"package ", pkgName.Name>>

\* The new package's name whether or not the import has an explicit name.
NewAliasDefault(importSpec, oldAlias, pkgRepl) ==
    <<CmpOrName(pkgRepl.pkgName, PathBase(pkgRepl.stdlib))>>

\* The alias for the new package (stdlib.go:60-65).
NewAlias(importSpec, oldAlias, pkgRepl) ==
    IF importSpec.Name = Nil
    THEN <<CmpOrName(pkgRepl.pkgName, PathBase(pkgRepl.stdlib))>>
    ELSE oldAlias

\* An import match that leaves the version out.
ImportMatchesUngated(importSpec, goVersion) ==
    /\ Unquote(importSpec.Path.Value).ok
    /\ Unquote(importSpec.Path.Value).path \in DOMAIN imports

\* Whether processFileImports reports the import (stdlib.go:47-55).
ImportMatches(importSpec, goVersion) ==
    /\ Unquote(importSpec.Path.Value).ok
    /\ Unquote(importSpec.Path.Value).path \in DOMAIN imports
    /\ VersionAllows(goVersion, imports[Unquote(importSpec.Path.Value).path].minVersion)

\* The edits that rename the references to the import; order is the order in
\* which the range over TypesInfo.Uses yields the identifiers
\* (stdlib.go:72-79).
RenameEdits(pkgName, oldAlias, newAlias, order) ==
    IF oldAlias # newAlias
    THEN LET hits == SelectSeq(order, LAMBDA id : UsesPkgName(id, pkgName))
         IN  [k \in 1..Len(hits) |-> Edit(Use(hits[k]).X.Pos, Use(hits[k]).X.End, newAlias)]
    ELSE << >>

ImportFix(importSpec, pkgRepl, oldAlias, order) ==
    <<Edit(importSpec.Path.Pos, importSpec.Path.End, QuotedText(pkgRepl.stdlib))>>
        \o RenameEdits(importSpec.PkgName, oldAlias, NewAlias(importSpec, oldAlias, pkgRepl),
                       order)

\* The diagnostic of one matching import (stdlib.go:57-89).
ImportDiagnostic(importSpec, pkgPath, order) ==
    [Category |-> "stdlib", Pos |-> importSpec.Pos, End |-> importSpec.End,
     Message |-> <<"Package ">> \o QuotedText(pkgPath) \o <<" can be replaced with ">>
                     \o QuotedText(imports[pkgPath].stdlib),
     SuggestedFixes |-> <<[Message |-> "Replace package import and update references",
                           TextEdits |-> ImportFix(importSpec, imports[pkgPath],
                                                   ObjectString(importSpec.PkgName), order)]>>]

ImportDiagnostics(specs, order) ==
    [k \in 1..Len(specs) |->
        ImportDiagnostic(specs[k], Unquote(specs[k].Path.Value).path, order)]

\* processFileImports: the diagnostics it reports, in order.
processFileImports(file, pkgVersion, order) ==
    ImportDiagnostics(
        SelectSeq(file.Imports,
                  LAMBDA sp : ImportMatches(sp, EffectiveVersion(file.GoVersion, pkgVersion))),
        order)

NoReport == [report |-> FALSE, diag |-> Nil, record |-> "", panic |-> FALSE]

Report(u, repl, r) ==
    [report |-> ~r.panic, diag |-> SymbolDiagnostic(u.ident, u.obj, repl, r.edits),
     record |-> r.record, panic |-> r.panic]

\* The rest of an iteration once symbols[...][...] is looked up
\* (stdlib.go:104-144).
processFound(file, u, goVersion, found) ==
    IF ~found.ok \/ ~VersionAllows(goVersion, found.repl.minVersion) THEN NoReport
    ELSE Report(u, found.repl, SymbolEdits(file, u.ident, u.pathNodes, found.repl))

\* One iteration of the loop of processFileSymbols, for the identifier of u,
\* while file is processed: whether it reports, the diagnostic, the package
\* name to count the reference under, and whether it panics
\* (stdlib.go:96-144).
processIdent(file, pkgVersion, u) ==
    IF OutsideFile(file, u.ident, u.obj) THEN NoReport
    ELSE processFound(file, u, EffectiveVersion(file.GoVersion, pkgVersion),
                      LookupSymbol(u.obj.Pkg, u.obj.Name))

\* totalPkgUses of processUnusedImports (stdlib.go:197-204).
totalPkgUses(file, name) ==
    Cardinality({id \in Idents :
        /\ Use(id).qualified
        /\ Use(id).PkgName.Pos >= file.Pos
        /\ Use(id).PkgName.Pos <= file.End
        /\ Use(id).PkgName.Name = name})

\* The local alias of an import (stdlib.go:218-223).
LocalAlias(importSpec, pkgPath) ==
    IF importSpec.Name # Nil THEN importSpec.Name.Name ELSE PathBase(pkgPath)

\* A removal decided on the rewritten references alone.
ShouldRemoveAnyRewritten(candidateCount, total) == candidateCount > 0

\* Whether the import is suggested for removal (stdlib.go:229).
ShouldRemove(candidateCount, total) == candidateCount > 0 /\ total = candidateCount

\* Whether processUnusedImports considers the import (stdlib.go:208-215).
HasReplacements(importSpec) ==
    /\ Unquote(importSpec.Path.Value).ok
    /\ Unquote(importSpec.Path.Value).path \in DOMAIN symbols

UnusedDiagnostic(importSpec) ==
    [Category |-> "unused", Pos |-> importSpec.Pos, End |-> importSpec.End,
     Message |-> <<"The ">> \o Unquote(importSpec.Path.Value).path
                     \o <<" package import is no longer necessary">>,
     SuggestedFixes |-> <<[Message |-> "Remove unused import",
                           TextEdits |-> <<Edit(importSpec.Pos, importSpec.End, << >>)>>]>>]

\* Whether the loop of processUnusedImports reports the import
\* (stdlib.go:207-242).
Unused(file, refs, importSpec, localAlias) ==
    ShouldRemove(MapGet(refs, localAlias), totalPkgUses(file, localAlias))

UnusedDiagnostics(specs) == [k \in 1..Len(specs) |-> UnusedDiagnostic(specs[k])]

\* processUnusedImports: the diagnostics it reports, in order; refs is
\* references[file].
processUnusedImports(file, refs) ==
    UnusedDiagnostics(
        SelectSeq(file.Imports,
                  LAMBDA sp : /\ HasReplacements(sp)
                              /\ Unused(file, refs, sp,
                                        LocalAlias(sp, Unquote(sp.Path.Value).path))))

----------------------------------------------------------------------------
(* The run of the analyzer (stdlib.go:26-38)                               *)

FileVersions == {<< >>, Go(18)}
PkgVersions == {<< >>, Go(21), Go(23)}

\* The statements of a file, in the order of the catalogue.
UseSeqs ==
    {q \in UNION {[1..n -> 1..Len(Snippets)] : n \in 0..MaxUses} :
        \A i \in 1..(Len(q) - 1) : q[i] <= q[i + 1]}

FileInputs ==
    {[GoVersion |-> v, uses |-> q] : v \in FileVersions, q \in UseSeqs}

RECURSIVE TotalUses(_, _)
TotalUses(fs, n) == IF n = 0 THEN 0 ELSE Len(fs[n].uses) + TotalUses(fs, n - 1)

\* The packages analysed: NumFiles files with MaxUses statements in all.
Packages ==
    {fs \in [1..NumFiles -> FileInputs] :
        /\ TotalUses(fs, NumFiles) <= MaxUses
        /\ \A f \in 1..NumFiles : Len(fs[f].uses) = 0 => fs[f].GoVersion = << >>}

Init ==
    /\ pkgGoVersion \in PkgVersions
    /\ \E fs \in Packages :
           files = [f \in 1..NumFiles |-> ParseFile(f, fs[f].GoVersion, fs[f].uses)]
    /\ fi = 1
    /\ pc = "imports"
    /\ todo = {}
    /\ references = << >>
    /\ diags = << >>
    /\ panicked = FALSE

\* The orders in which a range over a map with these keys can yield them.
Orders(S) ==
    {q \in [1..Cardinality(S) -> S] : \A i, j \in 1..Cardinality(S) : i # j => q[i] # q[j]}

\* references[file] = make(map[string]int); processFileImports(pass, file)
ProcessFileImports ==
    /\ pc = "imports"
    /\ \E order \in Orders(Idents) :
           diags' = diags \o processFileImports(files[fi], pkgGoVersion, order)
    /\ references' = [f \in DOMAIN references \cup {fi} |->
                         IF f = fi THEN EmptyMap ELSE references[f]]
    /\ todo' = Idents
    /\ pc' = "symbols"
    /\ UNCHANGED <<pkgGoVersion, files, fi, panicked>>

\* One iteration of the range over TypesInfo.Uses in processFileSymbols.
\* (The qualifier identifiers, which resolve to a PkgName of the analysed
\* package itself, have no rule and are passed over with their statement.)
ProcessIdent(id) ==
    /\ pc = "symbols"
    /\ id \in todo
    /\ \E r \in {processIdent(files[fi], pkgGoVersion, Use(id))} :
           IF r.panic
           THEN /\ panicked' = TRUE
                /\ pc' = "done"
                /\ todo' = {}
                /\ UNCHANGED <<references, diags>>
           ELSE /\ todo' = todo \ {id}
                /\ diags' = IF r.report THEN Append(diags, r.diag) ELSE diags
                /\ references' = IF r.record # ""
                                 THEN [references EXCEPT ![fi] = MapInc(@, r.record)]
                                 ELSE references
                /\ UNCHANGED <<pc, panicked>>
    /\ UNCHANGED <<pkgGoVersion, files, fi>>

\* processUnusedImports run without waiting for the end of the scan.
ProcessUnusedImportsEarly ==
    /\ pc = "symbols"
    /\ diags' = diags \o processUnusedImports(files[fi], references[fi])
    /\ IF fi < NumFiles
       THEN fi' = fi + 1 /\ pc' = "imports"
       ELSE fi' = fi /\ pc' = "done"
    /\ UNCHANGED <<pkgGoVersion, files, todo, references, panicked>>

\* processUnusedImports(pass, file, references), then the next file.
ProcessUnusedImports ==
    /\ pc = "symbols"
    /\ todo = {}
    /\ diags' = diags \o processUnusedImports(files[fi], references[fi])
    /\ IF fi < NumFiles
       THEN fi' = fi + 1 /\ pc' = "imports"
       ELSE fi' = fi /\ pc' = "done"
    /\ UNCHANGED <<pkgGoVersion, files, todo, references, panicked>>

Next ==
    \/ ProcessFileImports
    \/ \E id \in Idents : ProcessIdent(id)
    \/ ProcessUnusedImports

Spec == Init /\ [][Next]_vars

\* The packages of one file with one statement, any of the catalogue.
StrategyInit ==
    /\ pkgGoVersion \in PkgVersions
    /\ \E v \in FileVersions, i \in 1..Len(Catalogue) :
           files = [f \in 1..NumFiles |->
                       IF f = 1 THEN ParseFile(f, v, <<i>>) ELSE ParseFile(f, << >>, << >>)]
    /\ fi = 1
    /\ pc = "imports"
    /\ todo = {}
    /\ references = << >>
    /\ diags = << >>
    /\ panicked = FALSE

\* The run of the analyzer on those packages.
StrategySpec == StrategyInit /\ [][Next]_vars

----------------------------------------------------------------------------
(* What a run shows of a file                                              *)

\* The file's three passes are over.
Scanned(f) == ~panicked /\ (fi > f \/ pc = "done")

\* processFileSymbols has been through the identifier of statement id.
Processed(id) ==
    /\ ~panicked
    /\ \/ fi > id[1]
       \/ pc = "done"
       \/ fi = id[1] /\ pc = "symbols" /\ id \notin todo

\* The reported diagnostics of a category that start at a position.
DiagsAt(pos, category) ==
    {k \in 1..Len(diags) : diags[k].Category = category /\ diags[k].Pos = pos}

FileIdents(f) == {id \in Idents : id[1] = f}

\* The references of file f written with the package name X.
Through(f, X) == {id \in FileIdents(f) : Use(id).qualified /\ Use(id).X.Name = X}

\* The reference has a diagnostic whose fix holds edits.
Rewritten(id) ==
    \E k \in DiagsAt(Use(id).ident.Pos, "stdlib") :
        \E j \in 1..Len(diags[k].SuggestedFixes) :
            Len(diags[k].SuggestedFixes[j].TextEdits) > 0

Diagnosed(id) == DiagsAt(Use(id).ident.Pos, "stdlib") # {}

RemovalOffered(importSpec) == DiagsAt(importSpec.Pos, "unused") # {}

ReplacementOffered(importSpec) == DiagsAt(importSpec.Pos, "stdlib") # {}

\* The explicit alias of an import, else the name of the package it imports.
AliasOf(importSpec) ==
    IF importSpec.Name # Nil THEN importSpec.Name.Name ELSE importSpec.PkgName.Name

\* The imports of file f whose path has rules in the registry.
RegistryImports(f) ==
    {k \in 1..Len(files[f].Imports) : files[f].Imports[k].PkgName.Imported \in DOMAIN symbols}

RuleOf(id) == LookupSymbol(Use(id).obj.Pkg, Use(id).obj.Name)

\* Version v is at least version w.
AtLeast(v, w) == v[1] > w[1] \/ (v[1] = w[1] /\ Minor(v) >= Minor(w))

Eff(f) == EffectiveVersion(files[f].GoVersion, pkgGoVersion)

\* The reference matches a rule that the version gate lets through.
Matched(id) == RuleOf(id).ok /\ AtLeast(Eff(id[1]), RuleOf(id).repl.minVersion)

\* The reference matches a rule whose strategy fails on its call.
StrategyFails(id) ==
    /\ Matched(id)
    /\ ExpectedPath(Use(id).pathNodes, Use(id).ident)
    /\ Use(id).pathNodes[3].kind = "CallExpr"
    /\ RuleOf(id).repl.rewrite.kind # "nil"
    /\ ~Rewrite(RuleOf(id).repl.rewrite, Use(id).pathNodes[3]).ok

\* The reference matches a rule, has the expected shape, and its strategy,
\* if the rule has one, succeeds.
Rewritable(id) ==
    /\ Matched(id)
    /\ ExpectedPath(Use(id).pathNodes, Use(id).ident)
    /\ ~StrategyFails(id)

----------------------------------------------------------------------------
(* Import removal                                                          *)

\* C1: after a file's scan, an import whose path has registry rules, with
\* local alias X, has a removal diagnostic if and only if the number of
\* rewritten references through X is greater than zero and equals the number
\* of references through X in the file; each alias is decided on its own.
C1_RemovalIffAllRewritten ==
    \A f \in 1..NumFiles :
        Scanned(f) =>
            \A k \in RegistryImports(f) :
                RemovalOffered(files[f].Imports[k]) <=>
                    /\ Cardinality({id \in Through(f, AliasOf(files[f].Imports[k])) :
                                       Rewritten(id)}) > 0
                    /\ Cardinality({id \in Through(f, AliasOf(files[f].Imports[k])) :
                                       Rewritten(id)})
                         = Cardinality(Through(f, AliasOf(files[f].Imports[k])))

\* A scanned file imports one path under two aliases; the import of one is
\* offered for removal, that of the other is not.
C1_Witness ==
    \E f \in 1..NumFiles :
        /\ Scanned(f)
        /\ \E k1, k2 \in RegistryImports(f) :
               /\ k1 # k2
               /\ files[f].Imports[k1].PkgName.Imported = files[f].Imports[k2].PkgName.Imported
               /\ RemovalOffered(files[f].Imports[k1])
               /\ ~RemovalOffered(files[f].Imports[k2])

\* C2: if every call through alias X is rewritten the import for X is
\* offered for removal; if one call through X fails its strategy the import
\* is not offered for removal, and the other calls through X keep their
\* diagnostics and fixes.
C2_AllOrNothing ==
    \A f \in 1..NumFiles :
        Scanned(f) =>
            \A k \in RegistryImports(f) :
                /\ (/\ Through(f, AliasOf(files[f].Imports[k])) # {}
                    /\ \A id \in Through(f, AliasOf(files[f].Imports[k])) : Rewritten(id))
                       => RemovalOffered(files[f].Imports[k])
                /\ (\E id \in Through(f, AliasOf(files[f].Imports[k])) : StrategyFails(id))
                       => /\ ~RemovalOffered(files[f].Imports[k])
                          /\ \A id \in Through(f, AliasOf(files[f].Imports[k])) :
                                 Rewritable(id) => Rewritten(id)

\* A scanned file has a call whose strategy fails and, through the same
\* alias, a call that is rewritten.
C2_Witness ==
    \E f \in 1..NumFiles :
        /\ Scanned(f)
        /\ \E k \in RegistryImports(f) :
               \E id1, id2 \in Through(f, AliasOf(files[f].Imports[k])) :
                   /\ StrategyFails(id1)
                   /\ Diagnosed(id1)
                   /\ Rewritten(id2)
                   /\ ~RemovalOffered(files[f].Imports[k])

\* C3: if a reference through alias X is to a symbol without a rule, or to
\* a symbol whose rule the version gate rejects, the import for X is not
\* offered for removal, however many other references through X are rewritten.
C3_OtherUsesKeepImport ==
    \A f \in 1..NumFiles :
        Scanned(f) =>
            \A k \in RegistryImports(f) :
                (\E id \in Through(f, AliasOf(files[f].Imports[k])) :
                    \/ ~RuleOf(id).ok
                    \/ VersionCompare(Eff(f), RuleOf(id).repl.minVersion) < 0)
                    => ~RemovalOffered(files[f].Imports[k])

\* A scanned file has a rewritten reference and, through the same alias, a
\* reference whose rule the version gate rejects.
C3_Witness ==
    \E f \in 1..NumFiles :
        /\ Scanned(f)
        /\ \E k \in RegistryImports(f) :
               \E id1, id2 \in Through(f, AliasOf(files[f].Imports[k])) :
                   /\ Rewritten(id1)
                   /\ RuleOf(id2).ok
                   /\ VersionCompare(Eff(f), RuleOf(id2).repl.minVersion) < 0
                   /\ ~RemovalOffered(files[f].Imports[k])

----------------------------------------------------------------------------
(* Version gating                                                          *)

ImportPath(f, k) == files[f].Imports[k].PkgName.Imported

\* C4: a symbol rule or package-import rule with minimum version V yields
\* no diagnostic in a file whose effective version is below V, and yields
\* one for every effective version at or above V.
C4_GateMonotonic ==
    \A f \in 1..NumFiles :
        Scanned(f) =>
            /\ \A id \in FileIdents(f) :
                   RuleOf(id).ok =>
                       (Diagnosed(id) <=> AtLeast(Eff(f), RuleOf(id).repl.minVersion))
            /\ \A k \in 1..Len(files[f].Imports) :
                   ImportPath(f, k) \in DOMAIN imports =>
                       (ReplacementOffered(files[f].Imports[k])
                            <=> AtLeast(Eff(f), imports[ImportPath(f, k)].minVersion))

\* A scanned file has a diagnosed reference whose rule's minimum is the
\* file's effective version, and an undiagnosed one whose rule's is above it.
C4_Witness ==
    \E f \in 1..NumFiles :
        /\ Scanned(f)
        /\ \E id1, id2 \in FileIdents(f) :
               /\ RuleOf(id1).ok
               /\ RuleOf(id1).repl.minVersion = Eff(f)
               /\ Diagnosed(id1)
               /\ RuleOf(id2).ok
               /\ ~AtLeast(Eff(f), RuleOf(id2).repl.minVersion)
               /\ ~Diagnosed(id2)

\* Whether a rule with the given minimum applies in file f, by the file's
\* declared version, else the module's, else always.
Gate(f, minVersion) ==
    IF files[f].GoVersion # << >> THEN AtLeast(files[f].GoVersion, minVersion)
    ELSE IF pkgGoVersion # << >> THEN AtLeast(pkgGoVersion, minVersion)
    ELSE TRUE

\* C5: the effective version of a file is its own declared version when it
\* has one, even below the module's; otherwise the module's declared
\* version; otherwise a version that passes the minimum of every rule of the
\* registry and of the import table.
C5_EffectiveVersion ==
    \A f \in 1..NumFiles :
        /\ files[f].GoVersion # << >> => Eff(f) = files[f].GoVersion
        /\ files[f].GoVersion = << >> /\ pkgGoVersion # << >> => Eff(f) = pkgGoVersion
        /\ Scanned(f) =>
               /\ \A id \in FileIdents(f) :
                      RuleOf(id).ok => (Diagnosed(id) <=> Gate(f, RuleOf(id).repl.minVersion))
               /\ \A k \in 1..Len(files[f].Imports) :
                      ImportPath(f, k) \in DOMAIN imports =>
                          (ReplacementOffered(files[f].Imports[k])
                               <=> Gate(f, imports[ImportPath(f, k)].minVersion))

\* After the run, a file that declares a version below the module's has an
\* undiagnosed reference whose rule the module's version would pass, and a
\* file that declares none has that reference diagnosed.
C5_Witness ==
    \E f1, f2 \in 1..NumFiles :
        /\ Scanned(f1) /\ Scanned(f2)
        /\ files[f1].GoVersion # << >>
        /\ files[f2].GoVersion = << >>
        /\ pkgGoVersion # << >>
        /\ \E id1 \in FileIdents(f1), id2 \in FileIdents(f2) :
               /\ Use(id1).obj = Use(id2).obj
               /\ RuleOf(id1).ok
               /\ AtLeast(pkgGoVersion, RuleOf(id1).repl.minVersion)
               /\ ~Diagnosed(id1)
               /\ Diagnosed(id2)

----------------------------------------------------------------------------
(* Call-site diagnostics                                                   *)

\* The message for an object and its rule, from the object's package path
\* and name and the rule's replacement alone.
ExpectedMessage(id) ==
    Use(id).obj.Pkg \o <<".", Use(id).obj.Name, " can be replaced with ">>
        \o (IF RuleOf(id).repl.stdlib = << >> THEN <<"builtin">>
            ELSE RuleOf(id).repl.stdlib)

\* C6: every identifier of a file has exactly one call-site diagnostic when
\* it resolves to a package path and symbol of the registry that the version
\* gate allows, and none otherwise; the diagnostic and its message, which
\* names the resolved path and symbol and "builtin" for a rule without a
\* replacement symbol, are the same whatever the alias and whether the
\* reference is qualified or comes from a dot import.
C6_OneDiagnosticPerMatch ==
    \A id \in Idents :
        Processed(id) =>
            /\ Cardinality(DiagsAt(Use(id).ident.Pos, "stdlib"))
                   = (IF Matched(id) THEN 1 ELSE 0)
            /\ \A k \in DiagsAt(Use(id).ident.Pos, "stdlib") :
                   /\ diags[k].Message = ExpectedMessage(id)
                   /\ diags[k].End = Use(id).ident.End

\* The run is over with the same symbol referred to through an alias and
\* through a dot import, both diagnosed with the same message, and with a
\* diagnosed reference whose rule has no replacement symbol.
C6_Witness ==
    \E id1, id2 \in Idents :
        /\ Processed(id1) /\ Processed(id2)
        /\ Use(id1).obj = Use(id2).obj
        /\ Use(id1).qualified /\ Use(id1).X.Name = "hi"
        /\ ~Use(id2).qualified
        /\ \E k1 \in DiagsAt(Use(id1).ident.Pos, "stdlib"),
              k2 \in DiagsAt(Use(id2).ident.Pos, "stdlib") :
               diags[k1].Message = diags[k2].Message

\* A diagnosed reference whose rule has no replacement symbol.
C6_WitnessBuiltin ==
    \E id \in Idents :
        /\ Processed(id)
        /\ Matched(id)
        /\ RuleOf(id).repl.stdlib = << >>
        /\ Diagnosed(id)

\* C7: when the strategy of a matched rule fails on a call, the iteration
\* still reports a diagnostic for the call, the diagnostic holds no edit, not
\* even the rename of qualifier and symbol, and no reference is counted.
C7_FailedStrategyStep ==
    [][\A id \in Idents :
          (/\ fi = id[1] /\ pc = "symbols" /\ id \in todo /\ id \notin todo'
           /\ StrategyFails(id))
              => /\ diags' # diags
                 /\ SubSeq(diags', 1, Len(diags)) = diags
                 /\ Len(diags') = Len(diags) + 1
                 /\ diags'[Len(diags')].Pos = Use(id).ident.Pos
                 /\ \A j \in 1..Len(diags'[Len(diags')].SuggestedFixes) :
                        diags'[Len(diags')].SuggestedFixes[j].TextEdits = << >>
                 /\ references' = references]_vars

\* A call whose strategy fails has been processed: it is diagnosed without
\* edits, and nothing is counted for its alias.
C7_Witness ==
    \E id \in Idents :
        /\ Processed(id)
        /\ StrategyFails(id)
        /\ Diagnosed(id)
        /\ ~Rewritten(id)
        /\ pc = "symbols" /\ fi = id[1]
        /\ MapGet(references[fi], Use(id).X.Name) = 0

\* C8: the diagnostic of a call whose strategy failed has an empty list of
\* suggested fixes, and every diagnostic has zero or one suggested fix.
C8_NoFixOnFailure ==
    /\ \A k \in 1..Len(diags) : Len(diags[k].SuggestedFixes) <= 1
    /\ \A id \in Idents :
           Processed(id) /\ StrategyFails(id) =>
               \A k \in DiagsAt(Use(id).ident.Pos, "stdlib") :
                   Len(diags[k].SuggestedFixes) = 0

----------------------------------------------------------------------------
(* Edits of a fix                                                          *)

\* The reference is the function of a call and matches a rule that has no
\* strategy.
DirectCall(id) ==
    /\ Matched(id)
    /\ RuleOf(id).repl.rewrite.kind = "nil"
    /\ \E n \in 1..Len(Use(id).pathNodes) :
           /\ Use(id).pathNodes[n].kind = "CallExpr"
           /\ \/ Use(id).pathNodes[n].Fun = Use(id).ident
              \/ /\ Use(id).pathNodes[n].Fun.kind = "SelectorExpr"
                 /\ Use(id).pathNodes[n].Fun.Sel = Use(id).ident

\* The rename of the package qualifier and of the symbol name.
BaseRename(id) ==
    <<Edit(Use(id).X.Pos, Use(id).X.End, CutDot(RuleOf(id).repl.stdlib).before),
      Edit(Use(id).ident.Pos, Use(id).ident.End, CutDot(RuleOf(id).repl.stdlib).after)>>

\* The replacement package of the rule is among the imports of the file.
Imported(id) ==
    \E k \in 1..Len(files[id[1]].Imports) :
        ImportPath(id[1], k) = CutDot(RuleOf(id).repl.stdlib).before

\* An insertion at the end of the import declaration of the file.
IsImportInsertion(id, e) ==
    /\ e.Pos = e.End
    /\ e.Pos \in {files[id[1]].ImportDecl.End - 1, files[id[1]].ImportDecl.End}
    /\ \E n \in 1..Len(e.NewText) :
           SubSeq(e.NewText, n, Len(e.NewText))
               = QuotedText(CutDot(RuleOf(id).repl.stdlib).before)

\* The number of processed direct calls through a package name.
DirectCallsThrough(f, X) ==
    Cardinality({id \in Through(f, X) : Processed(id) /\ DirectCall(id)})

\* C9, as stated: for a call matching a rule without a strategy, the fix is
\* the rename of the package qualifier and of the symbol name alone, and the
\* reference is counted as rewritten.
C9_BaseEditAlone ==
    \A id \in Idents :
        Processed(id) /\ DirectCall(id) =>
            /\ \A k \in DiagsAt(Use(id).ident.Pos, "stdlib") :
                   /\ Len(diags[k].SuggestedFixes) = 1
                   /\ diags[k].SuggestedFixes[1].TextEdits = BaseRename(id)
            /\ Use(id).X.Name \in DOMAIN references[id[1]]

\* C9, amended: for a qualified call matching a rule without a strategy, the
\* fix is the rename of the package qualifier and of the symbol name,
\* followed by the insertion of the import of the replacement package when
\* the file does not import it yet, with no other edit, and the reference is
\* counted as rewritten.
C9_BaseEditAndImport ==
    \A id \in Idents :
        Processed(id) /\ DirectCall(id) /\ Use(id).qualified =>
            /\ \A k \in DiagsAt(Use(id).ident.Pos, "stdlib") :
                   /\ Len(diags[k].SuggestedFixes) = 1
                   /\ SubSeq(diags[k].SuggestedFixes[1].TextEdits, 1, 2) = BaseRename(id)
                   /\ IF Imported(id)
                      THEN Len(diags[k].SuggestedFixes[1].TextEdits) = 2
                      ELSE /\ Len(diags[k].SuggestedFixes[1].TextEdits) = 3
                           /\ IsImportInsertion(id, diags[k].SuggestedFixes[1].TextEdits[3])
            /\ Diagnosed(id)
            /\ MapGet(references[id[1]], Use(id).X.Name)
                   >= DirectCallsThrough(id[1], Use(id).X.Name)

\* A qualified direct call has been processed in a file that does not
\* import the replacement package: its fix ends with the insertion of the
\* import, and the reference is counted.
C9_Witness ==
    \E id \in Idents :
        /\ Processed(id) /\ DirectCall(id) /\ Use(id).qualified /\ ~Imported(id)
        /\ \E k \in DiagsAt(Use(id).ident.Pos, "stdlib") :
               /\ Len(diags[k].SuggestedFixes[1].TextEdits) = 3
               /\ IsImportInsertion(id, diags[k].SuggestedFixes[1].TextEdits[3])
        /\ MapGet(references[id[1]], Use(id).X.Name) > 0

\* A qualified direct call has been processed in a file that imports the
\* replacement package already: its fix is the two renames.
C9_WitnessImported ==
    \E id \in Idents :
        /\ Processed(id) /\ DirectCall(id) /\ Use(id).qualified /\ Imported(id)
        /\ \E k \in DiagsAt(Use(id).ident.Pos, "stdlib") :
               diags[k].SuggestedFixes[1].TextEdits = BaseRename(id)

\* Two edits cover no common position.
Disjoint(a, b) == a.End <= b.Pos \/ b.End <= a.Pos

\* C10: in every diagnostic, the text edits of the suggested fix have
\* pairwise non-overlapping spans.
C10_EditsDisjoint ==
    \A k \in 1..Len(diags) :
        \A j \in 1..Len(diags[k].SuggestedFixes) :
            \A m, n \in 1..Len(diags[k].SuggestedFixes[j].TextEdits) :
                m # n => Disjoint(diags[k].SuggestedFixes[j].TextEdits[m],
                                  diags[k].SuggestedFixes[j].TextEdits[n])

----------------------------------------------------------------------------
(* Rewrite strategies                                                      *)

\* The edits of the fixes of the call-site diagnostic of a reference.
HasEdit(id, e) ==
    \E k \in DiagsAt(Use(id).ident.Pos, "stdlib") :
        \E j \in 1..Len(diags[k].SuggestedFixes) :
            \E m \in 1..Len(diags[k].SuggestedFixes[j].TextEdits) :
                diags[k].SuggestedFixes[j].TextEdits[m] = e

\* The diagnostic of the reference holds no edit.
NoEdits(id) ==
    \A k \in DiagsAt(Use(id).ident.Pos, "stdlib") :
        \A j \in 1..Len(diags[k].SuggestedFixes) :
            diags[k].SuggestedFixes[j].TextEdits = << >>

\* A processed call alias.Symbol(args) of the lo package whose rule the
\* version gate lets through.
StrategyCall(id, names) ==
    /\ Processed(id)
    /\ Matched(id)
    /\ Use(id).obj.Pkg = LoPath
    /\ Use(id).obj.Name \in names
    /\ ExpectedPath(Use(id).pathNodes, Use(id).ident)
    /\ Use(id).pathNodes[3].kind = "CallExpr"
    /\ Use(id).pathNodes[3].Fun = Use(id).pathNodes[2]

CallArgs(id) == Use(id).pathNodes[3].Args

LastArg(id) == CallArgs(id)[Len(CallArgs(id))]

\* cmp.Compare of two operands.
CompareOf(x, y) == <<"cmp.Compare(">> \o x \o <<", ">> \o y \o <<")">>

\* The comparison that keeps the direction of a returned x op y: for MinBy
\* the operands stay in order under < and <= and are swapped under > and >=;
\* for MaxBy it is the other way round.
DirectedCompare(sym, res) ==
    IF (sym = "MinBy") = (res.Op \in {"<", "<="})
    THEN CompareOf(res.X, res.Y)
    ELSE CompareOf(res.Y, res.X)

\* C11: where the strategy that turns a less literal into a comparator
\* succeeds, the result type of the literal becomes int and every return
\* statement of the literal is rewritten: a return of a < b or a <= b to the
\* comparison of (a, b) for MinBy and of (b, a) for MaxBy, a return of a > b
\* or a >= b to the comparison of (b, a) for MinBy and of (a, b) for MaxBy.
C11_EveryReturnRewritten ==
    \A id \in Idents :
        (/\ StrategyCall(id, {"MinBy", "MaxBy"})
         /\ LastArg(id).kind = "FuncLit"
         /\ Rewritten(id))
            => /\ HasEdit(id, Edit(LastArg(id).Results[1].Pos, LastArg(id).Results[1].End,
                                   <<"int">>))
               /\ \A r \in 1..Len(LastArg(id).Returns) :
                      \E q \in 1..Len(LastArg(id).Returns[r].Results) :
                          HasEdit(id, Edit(LastArg(id).Returns[r].Results[q].Pos,
                                           LastArg(id).Returns[r].Results[q].End,
                                           DirectedCompare(Use(id).obj.Name,
                                               LastArg(id).Returns[r].Results[q])))

\* C11, for the return statements that return one value: each of them is
\* rewritten with the direction kept, and the result type becomes int.
C11_DirectionKept ==
    \A id \in Idents :
        (/\ StrategyCall(id, {"MinBy", "MaxBy"})
         /\ LastArg(id).kind = "FuncLit"
         /\ Rewritten(id))
            => /\ HasEdit(id, Edit(LastArg(id).Results[1].Pos, LastArg(id).Results[1].End,
                                   <<"int">>))
               /\ \A r \in 1..Len(LastArg(id).Returns) :
                      \A q \in 1..Len(LastArg(id).Returns[r].Results) :
                          /\ LastArg(id).Returns[r].Results[q].Op \in {"<", "<=", ">", ">="}
                          /\ HasEdit(id, Edit(LastArg(id).Returns[r].Results[q].Pos,
                                              LastArg(id).Returns[r].Results[q].End,
                                              DirectedCompare(Use(id).obj.Name,
                                                  LastArg(id).Returns[r].Results[q])))

\* A rewritten MaxBy call whose literal returns x < y and x > y.
C11_DirectionWitness ==
    \E id \in Idents :
        /\ StrategyCall(id, {"MaxBy"})
        /\ LastArg(id).kind = "FuncLit"
        /\ Rewritten(id)
        /\ Len(LastArg(id).Returns) = 2
        /\ HasEdit(id, Edit(LastArg(id).Returns[1].Results[1].Pos,
                            LastArg(id).Returns[1].Results[1].End, CompareOf(<<"y">>, <<"x">>)))
        /\ HasEdit(id, Edit(LastArg(id).Returns[2].Results[1].Pos,
                            LastArg(id).Returns[2].Results[1].End, CompareOf(<<"x">>, <<"y">>)))

\* A return statement of the literal that does not return exactly one value.
ReturnsNotOne(lit) == \E r \in 1..Len(lit.Returns) : Len(lit.Returns[r].Results) # 1

\* A returned expression that is no comparison with <, <=, > or >=.
ReturnsOther(lit) ==
    \E r \in 1..Len(lit.Returns) :
        \E q \in 1..Len(lit.Returns[r].Results) :
            \/ lit.Returns[r].Results[q].kind # "BinaryExpr"
            \/ lit.Returns[r].Results[q].Op \notin {"<", "<=", ">", ">="}

\* C12: the strategy that turns a less literal into a comparator fails
\* closed: the diagnostic of a MinBy or MaxBy call carries no edit whenever
\* the comparator argument is no function literal, a return statement of the
\* literal does not return exactly one value, or a returned expression is no
\* comparison with <, <=, > or >=.
C12_FailsClosed ==
    \A id \in Idents :
        (/\ StrategyCall(id, {"MinBy", "MaxBy"})
         /\ Len(CallArgs(id)) > 0
         /\ \/ LastArg(id).kind # "FuncLit"
            \/ ReturnsNotOne(LastArg(id))
            \/ ReturnsOther(LastArg(id)))
            => NoEdits(id)

\* C12, without the return statements that do not return exactly one value:
\* a comparator argument that is no function literal and a returned
\* expression that is no comparison leave the diagnostic without edits.
C12_OtherCasesFailClosed ==
    \A id \in Idents :
        (/\ StrategyCall(id, {"MinBy", "MaxBy"})
         /\ Len(CallArgs(id)) > 0
         /\ \/ LastArg(id).kind # "FuncLit"
            \/ ReturnsOther(LastArg(id)))
            => NoEdits(id)

\* A MaxBy call whose literal returns x == y was reported without edits.
C12_OtherCasesWitness ==
    \E id \in Idents :
        /\ StrategyCall(id, {"MaxBy"})
        /\ LastArg(id).kind = "FuncLit"
        /\ ReturnsOther(LastArg(id))
        /\ Diagnosed(id)
        /\ NoEdits(id)

\* The key literal of an IsSortedByKey call: its second argument.
KeyArg(id) == CallArgs(id)[2]

\* The source text of a returned expression.
SourceText(res) ==
    IF res.kind = "BinaryExpr" THEN res.X \o <<" ", res.Op, " ">> \o res.Y ELSE res.X

Mentions(text, name) == name \in {text[k] : k \in 1..Len(text)}

\* The text with every occurrence of the parameter replaced by next.
WithNext(text, param) ==
    [k \in 1..Len(text) |-> IF text[k] = param THEN "next" ELSE text[k]]

\* A key literal that the strategy is to refuse: its parameter is unnamed, a
\* return statement does not return exactly one value, or a returned
\* expression does not mention the parameter.
KeyRefused(lit) ==
    \/ Len(lit.Params.Names) # 1
    \/ \E r \in 1..Len(lit.Returns) :
           \/ Len(lit.Returns[r].Results) # 1
           \/ \E q \in 1..Len(lit.Returns[r].Results) :
                  ~Mentions(SourceText(lit.Returns[r].Results[q]), lit.Params.Names[1])

\* C13: the strategy that turns a key literal into a comparator fails
\* closed: the diagnostic of an IsSortedByKey call carries no edit when the
\* key argument is no function literal, its parameter is unnamed, a return
\* statement does not return exactly one value or a returned expression does
\* not mention the parameter; otherwise the call is rewritten and every
\* return becomes the comparison of the key expression and of its copy with
\* the parameter replaced by next.
C13_KeyToCmp ==
    \A id \in Idents :
        (StrategyCall(id, {"IsSortedByKey"}) /\ Len(CallArgs(id)) >= 2)
            => IF KeyArg(id).kind # "FuncLit" \/ KeyRefused(KeyArg(id))
               THEN NoEdits(id)
               ELSE /\ Rewritten(id)
                    /\ \A r \in 1..Len(KeyArg(id).Returns) :
                           HasEdit(id, Edit(KeyArg(id).Returns[r].Results[1].Pos,
                                            KeyArg(id).Returns[r].Results[1].End,
                                            CompareOf(SourceText(KeyArg(id).Returns[r].Results[1]),
                                                      WithNext(SourceText(KeyArg(id).Returns[r].Results[1]),
                                                               KeyArg(id).Params.Names[1]))))

\* An IsSortedByKey call whose literal returns an expression without the
\* parameter was reported without edits.
C13_Witness ==
    \E id \in Idents :
        /\ StrategyCall(id, {"IsSortedByKey"})
        /\ KeyArg(id).kind = "FuncLit"
        /\ Len(KeyArg(id).Params.Names) = 1
        /\ \A r \in 1..Len(KeyArg(id).Returns) : Len(KeyArg(id).Returns[r].Results) = 1
        /\ KeyRefused(KeyArg(id))
        /\ Diagnosed(id)
        /\ NoEdits(id)

\* An IsSortedByKey call whose literal has two return statements was
\* rewritten: len(x) % 2 became cmp.Compare(len(x) % 2, len(next) % 2).
C13_WitnessRewritten ==
    \E id \in Idents :
        /\ StrategyCall(id, {"IsSortedByKey"})
        /\ KeyArg(id).kind = "FuncLit"
        /\ Len(KeyArg(id).Returns) = 2
        /\ Rewritten(id)
        /\ HasEdit(id, Edit(KeyArg(id).Returns[1].Results[1].Pos,
                            KeyArg(id).Returns[1].Results[1].End,
                            CompareOf(<<"len", "(", "x", ")", " ", "%", " ", "2">>,
                                      <<"len", "(", "next", ")", " ", "%", " ", "2">>)))

----------------------------------------------------------------------------
(* Package-import replacement                                              *)

\* processFileImports has been through file f.
ImportsDone(f) == fi > f \/ (fi = f /\ pc # "imports")

\* The import matches a package-import rule that the version gate lets
\* through.
ImportMatched(f, k) ==
    /\ ImportPath(f, k) \in DOMAIN imports
    /\ AtLeast(Eff(f), imports[ImportPath(f, k)].minVersion)

\* The text edits of the fixes offered for replacing an import.
ImportFixes(importSpec) ==
    UNION {{diags[d].SuggestedFixes[j].TextEdits : j \in 1..Len(diags[d].SuggestedFixes)} :
              d \in DiagsAt(importSpec.Pos, "stdlib")}

\* The edit that rewrites the path of the import to its replacement.
PathEdit(importSpec) ==
    Edit(importSpec.Path.Pos, importSpec.Path.End,
         <<"dquote">> \o imports[importSpec.PkgName.Imported].stdlib \o <<"dquote">>)

\* The name under which the replacement package is referred to by default.
DefaultName(pkgRepl) ==
    IF pkgRepl.pkgName # "" THEN pkgRepl.pkgName ELSE pkgRepl.stdlib[Len(pkgRepl.stdlib)]

\* C14: for an import that matches a package-import rule and is written
\* with an explicit name, the fix is the edit of the import path alone: the
\* name stays and no reference of the file is edited.
C14_AliasPreserved ==
    \A f \in 1..NumFiles :
        ImportsDone(f) =>
            \A k \in 1..Len(files[f].Imports) :
                (ImportMatched(f, k) /\ files[f].Imports[k].Name # Nil)
                    => ImportFixes(files[f].Imports[k]) = {<<PathEdit(files[f].Imports[k])>>}

\* A file that refers to golang.org/x/exp/slices under the name xslices
\* has the fix for that import.
C14_Witness ==
    \E f \in 1..NumFiles :
        /\ ImportsDone(f)
        /\ \E k \in 1..Len(files[f].Imports) :
               /\ ImportMatched(f, k)
               /\ files[f].Imports[k].Name # Nil
               /\ Through(f, AliasOf(files[f].Imports[k])) # {}
               /\ ImportFixes(files[f].Imports[k]) # {}

\* The edits that give the references of file f to the import its new name.
QualifierEdits(f, importSpec) ==
    {Edit(Use(id).X.Pos, Use(id).X.End, <<DefaultName(imports[importSpec.PkgName.Imported])>>) :
        id \in Through(f, AliasOf(importSpec))}

EditSet(edits) == {edits[m] : m \in 1..Len(edits)}

\* C15: for an import without explicit name that matches a package-import
\* rule the version gate lets through, where the default name of the
\* replacement differs from the old one, the fix rewrites the import path and
\* every reference of the file through that import to the new name, and
\* nothing else.
C15_ReferencesRenamed ==
    \A f \in 1..NumFiles :
        ImportsDone(f) =>
            \A k \in 1..Len(files[f].Imports) :
                (/\ ImportMatched(f, k)
                 /\ files[f].Imports[k].Name = Nil
                 /\ DefaultName(imports[ImportPath(f, k)]) # files[f].Imports[k].PkgName.Name)
                    => /\ ImportFixes(files[f].Imports[k]) # {}
                       /\ \A edits \in ImportFixes(files[f].Imports[k]) :
                              /\ EditSet(edits) = {PathEdit(files[f].Imports[k])}
                                     \cup QualifierEdits(f, files[f].Imports[k])
                              /\ Len(edits) = 1 + Cardinality(Through(f, AliasOf(files[f].Imports[k])))

\* A file refers to golang.org/x/sync/syncmap and to another package; the
\* fix for the import renames the syncmap reference and leaves the other.
C15_Witness ==
    \E f \in 1..NumFiles :
        /\ ImportsDone(f)
        /\ \E k \in 1..Len(files[f].Imports) :
               /\ ImportMatched(f, k)
               /\ files[f].Imports[k].Name = Nil
               /\ DefaultName(imports[ImportPath(f, k)]) # files[f].Imports[k].PkgName.Name
               /\ Through(f, AliasOf(files[f].Imports[k])) # {}
               /\ \E id \in FileIdents(f) :
                      /\ Use(id).qualified
                      /\ id \notin Through(f, AliasOf(files[f].Imports[k]))
                      /\ \A edits \in ImportFixes(files[f].Imports[k]) :
                             /\ Len(edits) = 2
                             /\ \A m \in 1..Len(edits) : edits[m].Pos # Use(id).X.Pos

----------------------------------------------------------------------------
(* The passes over a file                                                  *)

\* The diagnostics that a step adds.
Added == {k \in 1..Len(diags') : k > Len(diags)}

\* The step ends the passes over the current file without a panic.
FileEnds == ~panicked' /\ (fi' # fi \/ (pc' = "done" /\ pc # "done"))

\* C16: within a file the passes run in the order package-import
\* replacement, symbol scan, reconciliation: the scan of a file starts from
\* the step that replaces its imports, with every identifier still to scan;
\* import replacements are reported by that step only and import removals
\* by the reconciliation only; and the reconciliation runs only when every
\* identifier of the file has been scanned.
C16_PassOrder ==
    [][/\ (pc = "imports") => (pc' = "symbols" /\ fi' = fi /\ FileIdents(fi) \subseteq todo')
       /\ (pc' = "symbols" /\ pc # "symbols") => pc = "imports"
       /\ (pc = "symbols" /\ pc' = "symbols") =>
              (/\ fi' = fi
               /\ todo' # todo
               /\ todo' \subseteq todo
               /\ \A k \in Added :
                      /\ diags'[k].Category = "stdlib"
                      /\ \E id \in todo \ todo' : diags'[k].Pos = Use(id).ident.Pos)
       /\ (\E k \in Added : diags'[k].Category = "unused") => FileEnds
       /\ FileEnds =>
              (/\ pc = "symbols"
               /\ \A id \in FileIdents(fi) : Processed(id)
               /\ \A k \in Added : diags'[k].Category = "unused"
               /\ references' = references)]_vars

\* The reconciliation of a file with two identifiers has reported the
\* removal of an import.
C16_Witness ==
    \E f \in 1..NumFiles :
        /\ Scanned(f)
        /\ Cardinality(FileIdents(f)) = 2
        /\ \E k \in 1..Len(files[f].Imports) :
               /\ RemovalOffered(files[f].Imports[k])
               /\ Cardinality(Through(f, AliasOf(files[f].Imports[k]))) = 2

----------------------------------------------------------------------------
(* The tally of a file                                                     *)

\* The number of rewritten references that file f's tally holds for alias X.
Tally(refs, f, X) == IF f \in DOMAIN refs THEN MapGet(refs[f], X) ELSE 0

\* The names that qualify a reference in the package.
Aliases == {Use(id).X.Name : id \in {u \in Idents : Use(u).qualified}}

\* C17: after every step, for every file and alias the count of rewritten
\* references is at most the number of references through that alias in the
\* file, which is the total that the reconciliation computes; a count
\* grows by one at a time, and only in the step that scans a reference of
\* the current file through that alias; and no count decreases.
C17_TallyBounded ==
    [][\A f \in 1..NumFiles :
           \A X \in Aliases \cup (IF f \in DOMAIN references' THEN DOMAIN references'[f] ELSE {}) :
               /\ Tally(references', f, X) <= Cardinality(Through(f, X))
               /\ Cardinality(Through(f, X)) = totalPkgUses(files[f], X)
               /\ Tally(references', f, X) >= Tally(references, f, X)
               /\ Tally(references', f, X) # Tally(references, f, X) =>
                      /\ Tally(references', f, X) = Tally(references, f, X) + 1
                      /\ f = fi
                      /\ \E id \in Through(f, X) : id \in todo /\ id \notin todo']_vars

\* The scan of a file is over with one rewritten reference of two through
\* the same alias.
C17_Witness ==
    \E f \in 1..NumFiles :
        /\ fi = f /\ pc = "symbols" /\ todo = {}
        /\ \E X \in Aliases :
               /\ Tally(references, f, X) = 1
               /\ Cardinality(Through(f, X)) = 2

----------------------------------------------------------------------------
(* Files of one package                                                    *)

\* The diagnostics after the step that start at the identifier of id.
ReportedAfter(id) ==
    {k \in 1..Len(diags') : diags'[k].Category = "stdlib" /\ diags'[k].Pos = Use(id).ident.Pos}

\* C18: the passes over a file touch that file alone: the iteration over
\* an identifier of another file changes neither tally nor diagnostics; a
\* step changes no tally but that of the current file; every diagnostic a
\* step adds lies within the current file; and an identifier is reported
\* at most once, in the passes over its own file.
C18_FileIsolation ==
    [][/\ \A id \in Idents :
              /\ (id \in todo /\ id \notin todo' /\ ~panicked' /\ id[1] # fi)
                     => (diags' = diags /\ references' = references)
              /\ Cardinality(ReportedAfter(id)) <= 1
              /\ (\E k \in Added : diags'[k].Pos = Use(id).ident.Pos) => id[1] = fi
       /\ \A f \in DOMAIN references : f # fi => (f \in DOMAIN references' /\ references'[f] = references[f])
       /\ \A f \in DOMAIN references' : f \notin DOMAIN references => f = fi
       /\ \A k \in Added : diags'[k].Pos >= files[fi].Pos /\ diags'[k].End <= files[fi].End]_vars

\* The scan of the second file has been through an identifier of the first
\* file that was rewritten there, and has left tally and diagnostics of
\* the first file as they were.
C18_Witness ==
    \E id \in FileIdents(1) :
        /\ fi = 2 /\ pc = "symbols" /\ id \notin todo
        /\ FileIdents(2) # {}
        /\ Rewritten(id)
        /\ Cardinality(DiagsAt(Use(id).ident.Pos, "stdlib")) = 1
        /\ Tally(references, 1, Use(id).X.Name) >= 1
        /\ Tally(references, 2, Use(id).X.Name) = 0

----------------------------------------------------------------------------
(* The chain of toSlice and reorderArgs                                    *)

\* The edits that the fix of the call holds inside the span of argument n.
ArgEdits(id, n) ==
    UNION {UNION {{m \in 1..Len(diags[k].SuggestedFixes[j].TextEdits) :
                      /\ diags[k].SuggestedFixes[j].TextEdits[m].Pos >= CallArgs(id)[n].Pos
                      /\ diags[k].SuggestedFixes[j].TextEdits[m].End <= CallArgs(id)[n].End} :
                  j \in 1..Len(diags[k].SuggestedFixes)} :
           k \in DiagsAt(Use(id).ident.Pos, "stdlib")}

\* The text of an expression wrapped in a slice literal of its type.
Wrapped(arg) == <<"[]">> \o arg.type \o <<"{">> \o arg.text \o <<"}">>

\* C19: where the chain of toSlice(0) and reorderArgs(1, 0) succeeds on a
\* Repeat call, the fix holds at most one edit for each argument, and they
\* put the second argument first and the wrapped first argument second;
\* where a step of the chain fails, the diagnostic carries no edit.
C19_ChainEdits ==
    \A id \in Idents :
        StrategyCall(id, {"Repeat"}) =>
            IF Rewritten(id)
            THEN /\ Len(CallArgs(id)) >= 2
                 /\ \A n \in 1..Len(CallArgs(id)) : Cardinality(ArgEdits(id, n)) <= 1
                 /\ HasEdit(id, Edit(CallArgs(id)[1].Pos, CallArgs(id)[1].End,
                                     CallArgs(id)[2].text))
                 /\ HasEdit(id, Edit(CallArgs(id)[2].Pos, CallArgs(id)[2].End,
                                     Wrapped(CallArgs(id)[1])))
            ELSE Len(CallArgs(id)) < 2 /\ NoEdits(id)

\* C19, the failure of a step: a Repeat call with fewer arguments than
\* reorderArgs orders is reported without edits.
C19_ChainFailsClosed ==
    \A id \in Idents :
        (StrategyCall(id, {"Repeat"}) /\ Len(CallArgs(id)) < 2) => NoEdits(id)

\* A Repeat call with one argument, on which toSlice succeeds and
\* reorderArgs fails, has been reported without edits.
C19_ChainFailsWitness ==
    \E id \in Idents :
        /\ StrategyCall(id, {"Repeat"})
        /\ Len(CallArgs(id)) = 1
        /\ Diagnosed(id)
        /\ NoEdits(id)

\* A rewritten Repeat call has two edits on the span of its first
\* argument: the slice literal of toSlice and the text that reorderArgs
\* moves there.
C19_OverlapWitness ==
    \E id \in Idents :
        /\ StrategyCall(id, {"Repeat"})
        /\ Rewritten(id)
        /\ HasEdit(id, Edit(CallArgs(id)[1].Pos, CallArgs(id)[1].End, Wrapped(CallArgs(id)[1])))
        /\ HasEdit(id, Edit(CallArgs(id)[1].Pos, CallArgs(id)[1].End, CallArgs(id)[2].text))

----------------------------------------------------------------------------
(* The template strategy                                                   *)

\* The text edits of the fixes of the call-site diagnostic of a reference.
FixesOf(id) ==
    UNION {{diags[k].SuggestedFixes[j].TextEdits : j \in 1..Len(diags[k].SuggestedFixes)} :
              k \in DiagsAt(Use(id).ident.Pos, "stdlib")}

\* The text that the pattern of a rule gives for two argument texts.
Slicing(sym, a, n) ==
    IF sym = "Drop" THEN a \o <<"[">> \o n \o <<":]">>
    ELSE a \o <<"[:len(">> \o a \o <<")-">> \o n \o <<"]">>

\* The argument without the comments written inside it.
Uncommented(text) == SelectSeq(text, LAMBDA t : t # " /* n */")

\* C20: where the template strategy succeeds on a Drop or DropRight call,
\* the fix is one edit that spans the whole call and whose text is the
\* pattern with the source text of each argument, verbatim: Drop(a, n)
\* becomes a[n:], DropRight(a, n) becomes a[:len(a)-n]; where the call lacks
\* an argument of the pattern, the diagnostic carries no edit.
C20_TemplateVerbatim ==
    \A id \in Idents :
        (StrategyCall(id, {"Drop", "DropRight"}) /\ Diagnosed(id)) =>
            IF Len(CallArgs(id)) >= 2
            THEN FixesOf(id) =
                     {<<Edit(Use(id).pathNodes[3].Pos, Use(id).pathNodes[3].End,
                             Slicing(Use(id).obj.Name, CallArgs(id)[1].text,
                                     CallArgs(id)[2].text))>>}
            ELSE NoEdits(id)

\* C20, with the arguments as go/printer prints their syntax trees, which
\* leaves out the comments inside an argument: the fix is one edit that
\* spans the whole call, and a call that lacks an argument of the pattern
\* gets no edit.
C20_TemplateAsRendered ==
    \A id \in Idents :
        (StrategyCall(id, {"Drop", "DropRight"}) /\ Diagnosed(id)) =>
            IF Len(CallArgs(id)) >= 2
            THEN FixesOf(id) =
                     {<<Edit(Use(id).pathNodes[3].Pos, Use(id).pathNodes[3].End,
                             Slicing(Use(id).obj.Name, Uncommented(CallArgs(id)[1].text),
                                     Uncommented(CallArgs(id)[2].text)))>>}
            ELSE NoEdits(id)

\* A Drop call whose second argument holds a comment has been rewritten,
\* and the text of the edit lacks the comment.
C20_CommentWitness ==
    \E id \in Idents :
        /\ StrategyCall(id, {"Drop"})
        /\ Len(CallArgs(id)) = 2
        /\ Uncommented(CallArgs(id)[2].text) # CallArgs(id)[2].text
        /\ HasEdit(id, Edit(Use(id).pathNodes[3].Pos, Use(id).pathNodes[3].End,
                            <<"a", "[", "n", " ", "+", " ", "1", ":]">>))

\* A Drop call with one argument has been reported without edits.
C20_MissingArgumentWitness ==
    \E id \in Idents :
        /\ StrategyCall(id, {"Drop"})
        /\ Len(CallArgs(id)) = 1
        /\ Diagnosed(id)
        /\ NoEdits(id)

----------------------------------------------------------------------------
(* References in type positions                                            *)

\* A qualified reference, matched by a rule, that is the type of a field: an
\* embedded element of an interface or the constraint of a type parameter.
TypePosition(id) ==
    /\ Matched(id)
    /\ Use(id).qualified
    /\ Len(Use(id).pathNodes) >= 3
    /\ Use(id).pathNodes[3].kind = "Field"

\* C21: a registry symbol referenced in a type position gets the rename of
\* qualifier and symbol, with the insertion of the import where the file
\* lacks it and with no edit of a strategy, and is counted as rewritten; an
\* import referenced in such positions only is offered for removal.
C21_TypePositions ==
    /\ \A id \in Idents :
           (Processed(id) /\ TypePosition(id)) =>
               /\ Cardinality(DiagsAt(Use(id).ident.Pos, "stdlib")) = 1
               /\ \A k \in DiagsAt(Use(id).ident.Pos, "stdlib") :
                      /\ Len(diags[k].SuggestedFixes) = 1
                      /\ Len(diags[k].SuggestedFixes[1].TextEdits) >= 2
                      /\ SubSeq(diags[k].SuggestedFixes[1].TextEdits, 1, 2) = BaseRename(id)
                      /\ IF Imported(id)
                         THEN Len(diags[k].SuggestedFixes[1].TextEdits) = 2
                         ELSE /\ Len(diags[k].SuggestedFixes[1].TextEdits) = 3
                              /\ IsImportInsertion(id, diags[k].SuggestedFixes[1].TextEdits[3])
               /\ MapGet(references[id[1]], Use(id).X.Name)
                      >= Cardinality({u \in Through(id[1], Use(id).X.Name) :
                                         Processed(u) /\ TypePosition(u)})
    /\ \A f \in 1..NumFiles :
           Scanned(f) =>
               \A k \in RegistryImports(f) :
                   (/\ Through(f, AliasOf(files[f].Imports[k])) # {}
                    /\ \A id \in Through(f, AliasOf(files[f].Imports[k])) : TypePosition(id))
                       => RemovalOffered(files[f].Imports[k])

\* A scanned file refers to its import in two type positions and nowhere
\* else, and the import is offered for removal.
C21_Witness ==
    \E f \in 1..NumFiles :
        /\ Scanned(f)
        /\ \E k \in RegistryImports(f) :
               /\ Cardinality(Through(f, AliasOf(files[f].Imports[k]))) = 2
               /\ \A id \in Through(f, AliasOf(files[f].Imports[k])) :
                      TypePosition(id) /\ Rewritten(id)
               /\ RemovalOffered(files[f].Imports[k])

----------------------------------------------------------------------------
(* The order of the identifiers                                            *)

\* A diagnostic with its fixes, the edits of a fix taken as a set.
Norm(d) ==
    <<d.Category, d.Pos, d.End, d.Message,
      {<<d.SuggestedFixes[j].Message, EditSet(d.SuggestedFixes[j].TextEdits)>> :
          j \in 1..Len(d.SuggestedFixes)}>>

NormSet(ds) == {Norm(ds[k]) : k \in 1..Len(ds)}

\* What the iteration over identifier id yields while file f is processed.
Outcome(f, id) == processIdent(files[f], pkgGoVersion, Use(id))

\* The tally of file f, counted without regard to any order.
CountedRefs(f) ==
    [X \in Aliases |-> Cardinality({id \in Idents : Outcome(f, id).record = X})]

\* The diagnostics of file f as the file, the registry and the versions
\* determine them.
DiagnosticsOf(f) ==
    NormSet(processFileImports(files[f], pkgGoVersion, CHOOSE o \in Orders(Idents) : TRUE))
        \cup {Norm(Outcome(f, id).diag) : id \in {u \in Idents : Outcome(f, u).report}}
        \cup NormSet(processUnusedImports(files[f], CountedRefs(f)))

----------------------------------------------------------------------------
(* Completion of the passes                                                *)

\* The run with the steps of the analyzer taken as long as one is possible.
LiveStrategySpec == StrategySpec /\ WF_vars(Next)

\* C23: the passes over a file are never aborted: whatever the shape of a
\* matched reference, its iteration reports a diagnostic or skips it, and
\* the run goes on.
C23_NeverAborts ==
    /\ ~panicked
    /\ \A id \in Idents : (Processed(id) /\ Matched(id)) => Diagnosed(id)

\* C23, the progress of a run: every run ends, with the reconciliation of
\* its last file or with an abort.
C23_RunEnds == <>(pc = "done")

\* The run was aborted in the iteration over a matched reference that is an
\* argument of a call with one argument, under a rule whose strategy takes
\* the second argument of the call.
C23_AbortWitness ==
    /\ panicked
    /\ \E id \in Idents :
           /\ Matched(id)
           /\ RuleOf(id).repl.rewrite.kind = "keyToCmp"
           /\ Use(id).pathNodes[3].kind = "CallExpr"
           /\ Use(id).pathNodes[3].Fun # Use(id).pathNodes[2]
           /\ Len(Use(id).pathNodes[3].Args) = 1
           /\ ~Diagnosed(id)

----------------------------------------------------------------------------
(* The call handed to a strategy                                           *)

\* A matched qualified reference that is an argument of a call, not its
\* callee.
ArgumentOfCall(id) ==
    /\ Matched(id)
    /\ Use(id).qualified
    /\ Len(Use(id).pathNodes) >= 3
    /\ Use(id).pathNodes[3].kind = "CallExpr"
    /\ Use(id).pathNodes[3].Fun # Use(id).pathNodes[2]

\* The edit lies within the selector of the reference.
WithinSelector(id, e) == e.Pos >= Use(id).X.Pos /\ e.End <= Use(id).ident.End

\* C24: a strategy is applied to the call of the matched symbol alone:
\* where the matched reference is an argument of another call, the fix
\* edits nothing of that call but the reference itself (and the imports of
\* the file).
C24_OwnCallOnly ==
    \A id \in Idents :
        (Processed(id) /\ ArgumentOfCall(id)) =>
            \A edits \in FixesOf(id) :
                \A m \in 1..Len(edits) :
                    WithinSelector(id, edits[m]) \/ IsImportInsertion(id, edits[m])

\* The fix for a reference passed to another call appends "..." to the
\* last argument of that call.
C24_OtherCallWitness ==
    \E id \in Idents :
        /\ Processed(id)
        /\ ArgumentOfCall(id)
        /\ RuleOf(id).repl.rewrite.kind = "toVariadic"
        /\ HasEdit(id, Edit(LastArg(id).End, LastArg(id).End, <<"...">>))
        /\ LastArg(id).Pos > Use(id).ident.End

----------------------------------------------------------------------------
(* Function literals nested in the comparator                              *)

\* Return statement r met in the body of the literal belongs to a literal
\* nested in the expression that return statement o returns.
NestedIn(lit, r, o) ==
    /\ r # o
    /\ Len(lit.Returns[r].Results) = 1
    /\ Len(lit.Returns[o].Results) = 1
    /\ lit.Returns[o].Results[1].Pos <= lit.Returns[r].Results[1].Pos
    /\ lit.Returns[r].Results[1].End <= lit.Returns[o].Results[1].End

\* An edit of the fix of the reference covers exactly the span.
EditsSpan(id, pos, end) ==
    \E edits \in FixesOf(id) :
        \E m \in 1..Len(edits) : edits[m].Pos = pos /\ edits[m].End = end

\* C25: the strategy that turns a less literal into a comparator leaves the
\* return statements of the literals nested in the comparator as they are:
\* none of them is the span of an edit, so none of them overlaps the edit of
\* the return statement that encloses it.
C25_NestedReturnsKept ==
    \A id \in Idents :
        (/\ StrategyCall(id, {"MinBy", "MaxBy"})
         /\ Len(CallArgs(id)) > 0
         /\ LastArg(id).kind = "FuncLit")
            => \A r, o \in 1..Len(LastArg(id).Returns) :
                   NestedIn(LastArg(id), r, o)
                       => ~EditsSpan(id, LastArg(id).Returns[r].Results[1].Pos,
                                     LastArg(id).Returns[r].Results[1].End)

\* The fix of a MaxBy call rewrites the return statement of the comparator
\* and, inside it, the return statement of the literal nested in it.
C25_NestedWitness ==
    \E id \in Idents :
        /\ StrategyCall(id, {"MaxBy"})
        /\ LastArg(id).kind = "FuncLit"
        /\ \E r, o \in 1..Len(LastArg(id).Returns) :
               /\ NestedIn(LastArg(id), r, o)
               /\ EditsSpan(id, LastArg(id).Returns[r].Results[1].Pos,
                            LastArg(id).Returns[r].Results[1].End)
               /\ EditsSpan(id, LastArg(id).Returns[o].Results[1].Pos,
                            LastArg(id).Returns[o].Results[1].End)

====
